---------------------------- MODULE Spec2Model ----------------------------
(***************************************************************************)
(* SystemOptimizer of the AD-HTC integrated system                         *)
(* (backend/app/core/optimization/optimizer.py): the optimize() facade and *)
(* its three strategies (genetic, gradient, Pareto), the fitness           *)
(* evaluator, the constraint checker and the performance model they call.  *)
(*                                                                         *)
(* Numbers.  The program computes in floating point; the model computes in *)
(* fixed point on integers:                                                *)
(*   - parameters, powers (kW) and costs ($/kW) are in thousandths         *)
(*     (pressure_ratio 12.0 is 12000, 1400 K is 1400000);                  *)
(*   - efficiencies, ratios and fitness values are in millionths           *)
(*     (an efficiency of 0.35 is 350000);                                  *)
(*   - weights are in tenths (the weight 1.0 is 10).                        *)
(* Every product and quotient is arranged to stay below 2^31.              *)
(*                                                                         *)
(* Python dicts are mutable objects: individuals live in `heap` and the    *)
(* populations hold addresses, so that a copy, an alias and an in-place    *)
(* update are different things in the model as they are in the program.    *)
(***************************************************************************)
EXTENDS Integers, Sequences, FiniteSets, TLC

(***************************************************************************)
(* Bounds of the model                                                     *)
(***************************************************************************)
\* config.generations ranges over 0..MaxGenerations
MaxGenerations == 2
\* points per axis of the Pareto grid (the program samples 50, optimizer.py:213)
n_samples == 3

(***************************************************************************)
(* Program constants                                                       *)
(***************************************************************************)
\* optimizer.py:43-45 (kW, millionths, $/kW)
reference_power == 100000
reference_efficiency == 350000
reference_cost == 1000
\* optimizer.py:78  best_fitness = -np.inf : below every fitness value
NegInf == -2000000000
\* optimizer.py:167 learning_rate = 0.1, in thousandths
learning_rate == 100
\* optimizer.py:168
max_iterations == 1000
\* optimizer.py:169 tolerance = 1e-6 and optimizer.py:348 h = 1e-5 are below
\* the resolution of the model.  The model probes at one thousandth, and its
\* smallest non-zero step has norm 1: a step is below the tolerance exactly
\* when its norm is below 1.
tolerance == 1
h == 1
\* optimizer.py:280 the weight 1.0 of an objective without a weight, in tenths
unit_weight == 10
\* optimizer.py:99  tournament size
tournament_size == 3
\* optimizer.py:106 crossover probability 0.8, in thousandths
crossover_rate == 800
\* optimizer.py:24  mutation_rate default 0.1, in thousandths
mutation_rate == 100
\* optimizer.py:129 standard deviation 0.1 * (upper - lower): a tenth
sigma_divisor == 10

\* self.bounds (optimizer.py:33-41), in thousandths, in insertion order
BoundKeys ==
    << "pressure_ratio", "max_turbine_temp", "compressor_efficiency",
       "turbine_efficiency", "ad_retention_time", "htc_temperature",
       "htc_residence_time" >>

InitialBounds ==
    [ pressure_ratio        |-> <<3000, 25000>>,
      max_turbine_temp      |-> <<800000, 1600000>>,
      compressor_efficiency |-> <<750, 950>>,
      turbine_efficiency    |-> <<800, 950>>,
      ad_retention_time     |-> <<10000, 40000>>,
      htc_temperature       |-> <<453000, 523000>>,
      htc_residence_time    |-> <<500, 4000>> ]

\* SystemOptimizer.__init__ (optimizer.py:32-45)
NewSystemOptimizer ==
    [ bounds               |-> InitialBounds,
      reference_power      |-> reference_power,
      reference_efficiency |-> reference_efficiency,
      reference_cost       |-> reference_cost ]

(***************************************************************************)
(* Fixed-point helpers                                                     *)
(***************************************************************************)
\* dict.get(key, default)
Get(d, k, default) == IF k \in DOMAIN d THEN d[k] ELSE default

Min2(a, b) == IF a < b THEN a ELSE b
Max2(a, b) == IF a > b THEN a ELSE b

\* division rounding toward zero, as a float quotient below one unit rounds
TruncDiv(a, b) == IF a >= 0 THEN a \div b ELSE -((-a) \div b)

\* weight * value, the weight in tenths
Weighted(weight, value) == TruncDiv(weight * value, unit_weight)

\* <<floor(a * 10^k / b), remainder>> by long division, a >= 0, b > 0
RECURSIVE LongDivQR(_, _, _)
LongDivQR(a, b, k) ==
    IF k = 0 THEN << a \div b, a % b >>
    ELSE LET p == LongDivQR(a, b, k - 1)
         IN  << p[1] * 10 + (p[2] * 10) \div b, (p[2] * 10) % b >>

\* a / b in millionths
Ratio(a, b) == LongDivQR(a, b, 6)[1]

\* product of two numbers in millionths, in millionths
FixMul(a, b) == (a * (b \div 1000) + (a * (b % 1000)) \div 1000) \div 1000

\* np.clip(v, lower, upper)
Clip(v, lower, upper) == Max2(lower, Min2(v, upper))

(***************************************************************************)
(* _evaluate_system_performance (optimizer.py:303-345)                     *)
(***************************************************************************)
\* 1 - 1 / pr ** ((gamma - 1) / gamma), gamma = 1.4 (optimizer.py:315-316),
\* in millionths, tabulated at the whole pressure ratios 1..27
IdealEffTable ==
    << 0, 179665, 269400, 327050, 368615, 400663, 426487, 447955, 466224,
       482053, 495967, 508343, 519459, 529527, 538710, 547138, 554915,
       562124, 568837, 575109, 580991, 586524, 591742, 596676, 601353,
       605795, 610023 >>

\* the table interpolated linearly between whole pressure ratios
IdealEff(pr) ==
    LET k == pr \div 1000
        f == pr % 1000
    IN  IdealEffTable[k]
          + ((IdealEffTable[k + 1] - IdealEffTable[k]) * f) \div 1000

evaluate_system_performance(parameters) ==
    LET pr       == Get(parameters, "pressure_ratio", 12000)
        t3       == Get(parameters, "max_turbine_temp", 1400000)
        eta_comp == Get(parameters, "compressor_efficiency", 850)
        eta_turb == Get(parameters, "turbine_efficiency", 880)
        rt       == Get(parameters, "ad_retention_time", 20000)
        htc_temp == Get(parameters, "htc_temperature", 473000)
        \* Brayton efficiency
        ideal_eff  == IdealEff(pr)
        temp_factor == 1000000 - (t3 - 1000000) \div 10
        actual_eff ==
            FixMul(FixMul(FixMul(ideal_eff, eta_comp * 1000), eta_turb * 1000),
                   temp_factor)
        \* Power output: 100000 kW * (actual_eff / 0.35)
        net_power == (actual_eff * 2000) \div 7
        \* AD performance: 0.8 * (20 / rt), then 50000 kW times the yield
        biogas_yield  == IF rt > 0 THEN Ratio(16000, rt) ELSE 0
        biogas_energy == 50 * biogas_yield
        \* HTC performance: 0.75 - 0.001 * (htc_temp - 473)
        htc_eff     == 750000 - (htc_temp - 473000)
        heat_demand == IF htc_eff > 0 THEN Ratio(20000000, htc_eff) ELSE 0
        \* Self-sufficiency
        waste_heat == (biogas_energy * 6) \div 10
        self_suff  ==
            IF heat_demand > 0
            THEN Min2(Ratio(waste_heat, heat_demand), 1000000)
            ELSE 0
        \* Cost: 1000 * (1 + 0.1 * (pr - 6) / 6)
        specific_cost == 1000000 + (100 * (pr - 6000)) \div 6
    IN  [ overall_efficiency      |-> actual_eff,
          net_power_kw            |-> net_power,
          biogas_energy_kw        |-> biogas_energy,
          htc_heat_demand_kw      |-> heat_demand,
          waste_heat_available_kw |-> waste_heat,
          self_sufficiency_ratio  |-> self_suff,
          specific_cost           |-> specific_cost ]

\* A performance model whose efficiency is linear in the parameters, with
\* coefficient c[j] (millionths per thousandth) for variable j; the other
\* metrics are constant.
LinearPerformance(c, parameters) ==
    [ overall_efficiency      |->
          c[1] * parameters.pressure_ratio
          + c[2] * parameters.max_turbine_temp
          + c[3] * parameters.compressor_efficiency
          + c[4] * parameters.turbine_efficiency
          + c[5] * parameters.ad_retention_time
          + c[6] * parameters.htc_temperature
          + c[7] * parameters.htc_residence_time,
      net_power_kw            |-> 0,
      specific_cost           |-> 1000000,
      self_sufficiency_ratio  |-> 0 ]

\* self._evaluate_system_performance(parameters) (lines 136, 197, 231, 275):
\* the model of the class, unless the instance has another one
system_performance(opt, parameters) ==
    IF "linear_model" \in DOMAIN opt
    THEN LinearPerformance(opt.linear_model, parameters)
    ELSE evaluate_system_performance(parameters)

(***************************************************************************)
(* _evaluate_fitness (optimizer.py:271-301)                                *)
(***************************************************************************)
\* Variant of the weighted sum that adds the normalized cost itself.
FitnessOfCostAdded(opt, performance, objectives) ==
    LET weights  == Get(objectives, "weights", << >>)
        maximize == Get(objectives, "maximize", {})
        minimize == Get(objectives, "minimize", {})
    IN  (IF "efficiency" \in maximize
         THEN Weighted(Get(weights, "efficiency", unit_weight),
                       Get(performance, "overall_efficiency", 0))
         ELSE 0)
        + (IF "power_output" \in maximize
           THEN Weighted(Get(weights, "power_output", unit_weight),
                         (Get(performance, "net_power_kw", 0) * 10)
                             \div opt.reference_power)
           ELSE 0)
        + (IF "specific_cost" \in minimize
           THEN Weighted(Get(weights, "specific_cost", unit_weight),
                         (Get(performance, "specific_cost", opt.reference_cost * 1000)
                              * 1000) \div opt.reference_cost)
           ELSE 0)
        + (IF "self_sufficiency" \in maximize
           THEN Weighted(Get(weights, "self_sufficiency", unit_weight),
                         Get(performance, "self_sufficiency_ratio", 0))
           ELSE 0)

\* Variant of the weighted sum that looks for every name in both lists.
FitnessOfEitherList(opt, performance, objectives) ==
    LET weights == Get(objectives, "weights", << >>)
        listed  == Get(objectives, "maximize", {}) \cup Get(objectives, "minimize", {})
    IN  (IF "efficiency" \in listed
         THEN Weighted(Get(weights, "efficiency", unit_weight),
                       Get(performance, "overall_efficiency", 0))
         ELSE 0)
        + (IF "power_output" \in listed
           THEN Weighted(Get(weights, "power_output", unit_weight),
                         (Get(performance, "net_power_kw", 0) * 10)
                             \div opt.reference_power)
           ELSE 0)
        + (IF "specific_cost" \in listed
           THEN Weighted(Get(weights, "specific_cost", unit_weight),
                         1000000
                           - (Get(performance, "specific_cost",
                                  opt.reference_cost * 1000) * 1000)
                                 \div opt.reference_cost)
           ELSE 0)
        + (IF "self_sufficiency" \in listed
           THEN Weighted(Get(weights, "self_sufficiency", unit_weight),
                         Get(performance, "self_sufficiency_ratio", 0))
           ELSE 0)

\* lines 276-301: the weighted sum over a performance record
FitnessOf(opt, performance, objectives) ==
    LET weights  == Get(objectives, "weights", << >>)
        maximize == Get(objectives, "maximize", {})
        minimize == Get(objectives, "minimize", {})
        f0 == 0
        \* Efficiency component
        f1 == IF "efficiency" \in maximize
              THEN f0 + Weighted(Get(weights, "efficiency", unit_weight),
                                 Get(performance, "overall_efficiency", 0))
              ELSE f0
        \* Power component
        f2 == IF "power_output" \in maximize
              THEN LET normalized_power ==
                           (Get(performance, "net_power_kw", 0) * 10)
                               \div opt.reference_power
                   IN  f1 + Weighted(Get(weights, "power_output", unit_weight),
                                     normalized_power)
              ELSE f1
        \* Cost component (minimize)
        f3 == IF "specific_cost" \in minimize
              THEN LET normalized_cost ==
                           (Get(performance, "specific_cost",
                                opt.reference_cost * 1000) * 1000)
                               \div opt.reference_cost
                   IN  f2 + Weighted(Get(weights, "specific_cost", unit_weight),
                                     1000000 - normalized_cost)
              ELSE f2
        \* Self-sufficiency
        f4 == IF "self_sufficiency" \in maximize
              THEN f3 + Weighted(Get(weights, "self_sufficiency", unit_weight),
                                 Get(performance, "self_sufficiency_ratio", 0))
              ELSE f3
    IN  f4

evaluate_fitness(opt, parameters, objectives) ==
    FitnessOf(opt, system_performance(opt, parameters), objectives)


(***************************************************************************)
(* _calculate_convergence (optimizer.py:400-414)                           *)
(***************************************************************************)
RECURSIVE SumSeq(_)
SumSeq(s) == IF s = << >> THEN 0 ELSE Head(s) + SumSeq(Tail(s))

Abs(a) == IF a < 0 THEN -a ELSE a

\* np.var: the mean of the squared deviations from the mean
Variance(s) ==
    LET mean == TruncDiv(SumSeq(s), Len(s))
        sq   == [k \in 1..Len(s) |-> FixMul(Abs(s[k] - mean), Abs(s[k] - mean))]
    IN  SumSeq(sq) \div Len(s)

\* Variant of the diagnostics that takes the variance of the whole history.
calculate_convergence_whole(history) ==
    IF Len(history) < 10
    THEN [ converged |-> FALSE, stability |-> 0 ]
    ELSE LET variance == Variance(history)
             first    == history[1]
             last     == history[Len(history)]
         IN  [ converged |-> variance < 1,
               stability |-> Ratio(1000000, 1000000 + variance),
               final_improvement |->
                   IF first # 0
                   THEN IF last >= first
                        THEN Ratio(last - first, Abs(first))
                        ELSE -Ratio(first - last, Abs(first))
                   ELSE 0 ]

calculate_convergence(history) ==
    IF Len(history) < 10
    THEN [ converged |-> FALSE, stability |-> 0 ]
    ELSE LET recent   == SubSeq(history, Len(history) - 9, Len(history))
             variance == Variance(recent)
             first    == history[1]
             last     == history[Len(history)]
         IN  [ converged |-> variance < 1,
               stability |-> Ratio(1000000, 1000000 + variance),
               final_improvement |->
                   IF first # 0
                   THEN IF last >= first
                        THEN Ratio(last - first, Abs(first))
                        ELSE -Ratio(first - last, Abs(first))
                   ELSE 0 ]

(***************************************************************************)
(* State                                                                   *)
(***************************************************************************)
VARIABLES
    optimizer,        \* the SystemOptimizer instance
    config,           \* the OptimizationConfig passed to optimize()
    pc,               \* position of the call
    result,           \* what optimize() has returned or raised
    heap,             \* the dicts of the genetic run, by address
    population,       \* addresses
    new_population,   \* addresses
    best_fitness,
    best_individual,  \* an address, 0 for None
    fitness_scores,
    fitness_history,
    generation,
    i,                \* index of the crossover and mutation loops
    x,                \* gradient run: the iterate
    x_new,            \* gradient run: the clipped step last computed
    history,
    iteration,
    solutions,        \* Pareto run
    pareto_frontier,
    cursor,           \* index of the Pareto loops
    arg,              \* the parameters of a direct _evaluate_fitness call
    evaluated,        \* log: every <<parameters, fitness>> the genetic run scored
    evaluations,      \* log: number of passes of the evaluation loop
    model_calls       \* log: number of calls of _evaluate_system_performance

genetic_vars ==
    << heap, population, new_population, best_fitness, best_individual,
       fitness_scores, fitness_history, generation, i, evaluated, evaluations >>

gradient_vars == << x, x_new, history, iteration >>

pareto_vars == << solutions, pareto_frontier, cursor >>

vars ==
    << optimizer, config, pc, result, genetic_vars, gradient_vars, pareto_vars,
       arg, model_calls >>

\* Python's None
None == [ None |-> TRUE ]

Running == [ status |-> "running" ]
Returned(v) == [ status |-> "returned", value |-> v ]
Raised(e) == [ status |-> "raised", error |-> e ]

(***************************************************************************)
(* Inputs                                                                  *)
(***************************************************************************)
\* np.random.random(): draws in thousandths
RandomDraws == { 50, 900 }
\* np.random.uniform(low, high): position in [low, high] in thousandths (the
\* high end is a possible outcome of the floating-point rounding)
UniformDraws == { 0, 1000 }
\* np.random.normal(0, sd): draws in multiples of sd
NormalDraws == { -10, 10 }
\* config.population_size
PopulationSizes == { 0, 1, 2, 3 }

GeneticObjectives ==
    { [ maximize |-> {"efficiency"}, minimize |-> {"specific_cost"} ] }

(***************************************************************************)
(* Heap of dicts                                                           *)
(***************************************************************************)
\* a new dict object
Alloc(hp, d) == [ heap |-> Append(hp, d), addr |-> Len(hp) + 1 ]

\* Variant of copy that hands back the object itself (an alias).
dict_alias(hp, a) == [ heap |-> hp, addr |-> a ]

\* dict.copy(): a new object with the same items
dict_copy(hp, a) == Alloc(hp, hp[a])

RECURSIVE Distinct(_, _)
Distinct(s, seen) ==
    IF s = << >> THEN << >>
    ELSE IF Head(s) \in seen THEN Distinct(Tail(s), seen)
    ELSE << Head(s) >> \o Distinct(Tail(s), seen \cup { Head(s) })

IndexOf(s, a) == CHOOSE k \in 1..Len(s) : s[k] = a

\* Objects no variable refers to are reclaimed; the live ones are renumbered in
\* the order population, new_population, best_individual reach them.
Collect(hp, pop, npop, best) ==
    LET roots == pop \o npop \o (IF best = 0 THEN << >> ELSE << best >>)
        live  == Distinct(roots, {})
    IN  [ heap            |-> [ m \in 1..Len(live) |-> hp[live[m]] ],
          population      |-> [ k \in 1..Len(pop) |-> IndexOf(live, pop[k]) ],
          new_population  |-> [ k \in 1..Len(npop) |-> IndexOf(live, npop[k]) ],
          best_individual |-> IF best = 0 THEN 0 ELSE IndexOf(live, best) ]

SetHeap(hp, pop, npop, best) ==
    LET c == Collect(hp, pop, npop, best)
    IN  /\ heap' = c.heap
        /\ population' = c.population
        /\ new_population' = c.new_population
        /\ best_individual' = c.best_individual

(***************************************************************************)
(* The performance model in place.  self._evaluate_system_performance is   *)
(* looked up on the instance at every call (lines 136, 197, 231, 275): it  *)
(* is the method of lines 303-345, which raises for no parameters within   *)
(* the bounds, unless the instance overrides it.  An overriding model that *)
(* raises is described by two more fields of the instance: the error and   *)
(* the number of the call that raises it.                                  *)
(***************************************************************************)
RaisesOnCall(opt) ==
    IF "raises_on_call" \in DOMAIN opt THEN opt.raises_on_call ELSE 0

\* one of the next n calls of the model raises
ModelRaisesWithin(n) ==
    /\ RaisesOnCall(optimizer) > model_calls
    /\ RaisesOnCall(optimizer) <= model_calls + n

(***************************************************************************)
(* optimize (optimizer.py:47-62)                                           *)
(***************************************************************************)
\* Variant of the dispatch that puts a default weights mapping into the
\* caller's objectives (objectives.setdefault('weights', {})).
OptimizeGeneticSetsDefault ==
    /\ pc = "optimize"
    /\ config.method = "genetic"
    /\ pc' = "genetic"
    /\ config' = [ config EXCEPT
                     !.objectives =
                         IF "weights" \in DOMAIN @ THEN @
                         ELSE @ @@ [ weights |-> << >> ] ]
    /\ UNCHANGED << gradient_vars, pareto_vars, arg, optimizer, result, genetic_vars, model_calls >>

OptimizeGenetic ==
    /\ pc = "optimize"
    /\ config.method = "genetic"
    /\ pc' = "genetic"
    /\ UNCHANGED << gradient_vars, pareto_vars, arg, optimizer, config, result, genetic_vars, model_calls >>

(***************************************************************************)
(* _genetic_optimization (optimizer.py:64-147)                             *)
(***************************************************************************)
\* line 67: variables = list(self.bounds.keys()).  The genetic search of the
\* model evolves the first two keys; an individual without the other keys is
\* evaluated at the defaults of _evaluate_system_performance (lines 307-312).
variables(opt) == << BoundKeys[1], BoundKeys[2] >>

VarSet(opt) == { variables(opt)[j] : j \in 1..Len(variables(opt)) }

\* Variant of the initialization that starts the running best at 0.
GeneticInitBestZero ==
    /\ pc = "genetic"
    /\ \E u \in [ 1..config.population_size -> [ VarSet(optimizer) -> UniformDraws ] ] :
          LET individual(k) ==
                  [ var \in VarSet(optimizer) |->
                      LET bounds == optimizer.bounds[var]
                      IN  bounds[1] + ((bounds[2] - bounds[1]) * u[k][var]) \div 1000 ]
          IN  /\ heap' = [ k \in 1..config.population_size |-> individual(k) ]
              /\ population' = [ k \in 1..config.population_size |-> k ]
    /\ best_fitness' = 0
    /\ best_individual' = 0
    /\ fitness_history' = << >>
    /\ generation' = 0
    /\ pc' = "g_loop"
    /\ UNCHANGED << gradient_vars, pareto_vars, arg, optimizer, config, result,
                    new_population, fitness_scores, i, evaluated, evaluations,
                    model_calls >>

\* lines 67-80
GeneticInit ==
    /\ pc = "genetic"
    /\ \E u \in [ 1..config.population_size -> [ VarSet(optimizer) -> UniformDraws ] ] :
          LET individual(k) ==
                  [ var \in VarSet(optimizer) |->
                      LET bounds == optimizer.bounds[var]
                      IN  bounds[1] + ((bounds[2] - bounds[1]) * u[k][var]) \div 1000 ]
          IN  /\ heap' = [ k \in 1..config.population_size |-> individual(k) ]
              /\ population' = [ k \in 1..config.population_size |-> k ]
    /\ best_fitness' = NegInf
    /\ best_individual' = 0
    /\ fitness_history' = << >>
    /\ generation' = 0
    /\ pc' = "g_loop"
    /\ UNCHANGED << gradient_vars, pareto_vars, arg, optimizer, config, result, new_population, fitness_scores,
                    i, evaluated, evaluations, model_calls >>

\* Variant of the loop test that ends the loop one generation early.
LoopExhaustedEarly == generation + 1 >= config.generations

\* line 83: the loop is over once generation has run through range(generations)
LoopExhausted == generation >= config.generations

\* Variant of the evaluation loop that records every score as the best one
\* (no comparison with the running best).
RECURSIVE EvaluateFromLatest(_, _, _, _, _)
EvaluateFromLatest(opt, objectives, pop, k, st) ==
    IF k > Len(pop) THEN st
    ELSE LET fitness == evaluate_fitness(opt, st.heap[pop[k]], objectives)
             c == dict_copy(st.heap, pop[k])
         IN  EvaluateFromLatest(opt, objectives, pop, k + 1,
                 [ st EXCEPT !.fitness_scores = Append(@, fitness),
                             !.best_fitness = fitness,
                             !.heap = c.heap,
                             !.best_individual = c.addr ])

\* lines 86-92: the evaluation loop from individual k on
RECURSIVE EvaluateFrom(_, _, _, _, _)
EvaluateFrom(opt, objectives, pop, k, st) ==
    IF k > Len(pop) THEN st
    ELSE LET fitness == evaluate_fitness(opt, st.heap[pop[k]], objectives)
             scored  == [ st EXCEPT !.fitness_scores = Append(@, fitness) ]
             next    ==
                 IF fitness > st.best_fitness
                 THEN LET c == dict_copy(st.heap, pop[k])
                      IN  [ scored EXCEPT !.best_fitness = fitness,
                                          !.heap = c.heap,
                                          !.best_individual = c.addr ]
                 ELSE scored
         IN  EvaluateFrom(opt, objectives, pop, k + 1, next)

\* lines 83-97: one pass of the evaluation loop, the history entry, and the
\* empty new_population
GeneticEvaluate ==
    /\ pc = "g_loop"
    /\ ~LoopExhausted
    /\ ~ModelRaisesWithin(Len(population))
    /\ LET st == EvaluateFrom(optimizer, config.objectives, population, 1,
                     [ heap |-> heap, best_fitness |-> best_fitness,
                       best_individual |-> best_individual,
                       fitness_scores |-> << >> ])
       IN  /\ fitness_scores' = st.fitness_scores
           /\ best_fitness' = st.best_fitness
           /\ fitness_history' = Append(fitness_history, st.best_fitness)
           /\ SetHeap(st.heap, population, << >>, st.best_individual)
           /\ evaluated' = evaluated \cup
                  { << heap[population[k]], st.fitness_scores[k] >> :
                      k \in 1..Len(population) }
    /\ evaluations' = evaluations + 1
    /\ model_calls' = model_calls + Len(population)
    /\ pc' = "g_select"
    /\ UNCHANGED << gradient_vars, pareto_vars, arg, optimizer, config, result, generation, i >>

\* Variant that takes the first position of the minimum.
ArgMinimum(s) ==
    CHOOSE k \in 1..Len(s) :
        /\ \A m \in 1..Len(s) : s[m] >= s[k]
        /\ \A m \in 1..(k - 1) : s[m] > s[k]

\* np.argmax: the first position of the maximum
ArgMax(s) ==
    CHOOSE k \in 1..Len(s) :
        /\ \A m \in 1..Len(s) : s[m] <= s[k]
        /\ \A m \in 1..(k - 1) : s[m] < s[k]

\* lines 100-101: the winner of the tournament among the sampled positions
TournamentWinner(scores, tournament_idx) ==
    LET tournament_fitness ==
            [ k \in 1..Len(tournament_idx) |-> scores[tournament_idx[k]] ]
    IN  tournament_idx[ArgMax(tournament_fitness)]

\* lines 98-102: one tournament
GeneticSelect ==
    /\ pc = "g_select"
    /\ Len(new_population) < config.population_size
    /\ \E tournament_idx \in [ 1..tournament_size -> 1..Len(population) ] :
          LET winner_idx == TournamentWinner(fitness_scores, tournament_idx)
              c == dict_copy(heap, population[winner_idx])
          IN  SetHeap(c.heap, population, Append(new_population, c.addr),
                      best_individual)
    /\ UNCHANGED << gradient_vars, pareto_vars, arg, optimizer, config, pc, result, best_fitness, fitness_scores,
                    fitness_history, generation, i, evaluated, evaluations,
                    model_calls >>

\* line 98, loop exhausted; line 105, crossover loop starts at 0
GeneticSelectDone ==
    /\ pc = "g_select"
    /\ Len(new_population) >= config.population_size
    /\ i' = 0
    /\ pc' = "g_crossover"
    /\ UNCHANGED << gradient_vars, pareto_vars, arg, optimizer, config, result, heap, population, new_population,
                    best_fitness, best_individual, fitness_scores,
                    fitness_history, generation, evaluated, evaluations,
                    model_calls >>

\* Variant of the crossover that writes the first child over the first parent
\* before it builds the second child.
ChildrenInPlace(vs, parent1, parent2, crossover_point) ==
    LET child1 == [ var \in DOMAIN parent1 |->
                      IF IndexOf(vs, var) - 1 < crossover_point
                      THEN parent1[var] ELSE parent2[var] ]
    IN  << child1,
           [ var \in DOMAIN parent1 |->
               IF IndexOf(vs, var) - 1 < crossover_point
               THEN parent2[var] ELSE child1[var] ] >>

\* lines 111-119: the two children of a pair, crossed at crossover_point
Children(vs, parent1, parent2, crossover_point) ==
    << [ var \in DOMAIN parent1 |->
           IF IndexOf(vs, var) - 1 < crossover_point
           THEN parent1[var] ELSE parent2[var] ],
       [ var \in DOMAIN parent1 |->
           IF IndexOf(vs, var) - 1 < crossover_point
           THEN parent2[var] ELSE parent1[var] ] >>

\* lines 105-122: one pair (new_population[i], new_population[i + 1])
GeneticCrossover ==
    /\ pc = "g_crossover"
    /\ i < config.population_size - 1
    /\ \E r \in RandomDraws :
          IF r < crossover_rate
          THEN \E crossover_point \in 1..(Len(variables(optimizer)) - 1) :
                  LET parent1 == heap[new_population[i + 1]]
                      parent2 == heap[new_population[i + 2]]
                      ch == Children(variables(optimizer), parent1, parent2,
                                     crossover_point)
                      a1 == Alloc(heap, ch[1])
                      a2 == Alloc(a1.heap, ch[2])
                  IN  SetHeap(a2.heap, population,
                              [ new_population EXCEPT ![i + 1] = a1.addr,
                                                      ![i + 2] = a2.addr ],
                              best_individual)
          ELSE UNCHANGED << heap, population, new_population, best_individual >>
    /\ i' = i + 2
    /\ UNCHANGED << gradient_vars, pareto_vars, arg, optimizer, config, pc, result, best_fitness, fitness_scores,
                    fitness_history, generation, evaluated, evaluations,
                    model_calls >>

\* line 105, loop exhausted; line 125, mutation loop starts
GeneticCrossoverDone ==
    /\ pc = "g_crossover"
    /\ i >= config.population_size - 1
    /\ i' = 0
    /\ pc' = "g_mutate"
    /\ UNCHANGED << gradient_vars, pareto_vars, arg, optimizer, config, result, heap, population, new_population,
                    best_fitness, best_individual, fitness_scores,
                    fitness_history, generation, evaluated, evaluations,
                    model_calls >>

\* Variant of the mutation that clips at the upper bound only.
MutatedUpperOnly(value, bounds, z) ==
    Min2(value + z * ((bounds[2] - bounds[1]) \div sigma_divisor), bounds[2])

\* lines 128-131: the new value of one variable that mutates by z deviations
Mutated(value, bounds, z) ==
    LET mutation == z * ((bounds[2] - bounds[1]) \div sigma_divisor)
    IN  Clip(value + mutation, bounds[1], bounds[2])

\* lines 127-129: the draws for one variable; no normal draw is made (z = 0)
\* when the random draw does not fall below the mutation rate
MutationDraws ==
    { [ r |-> r, z |-> z ] : r \in { q \in RandomDraws : q < mutation_rate },
                             z \in NormalDraws }
      \cup { [ r |-> r, z |-> 0 ] : r \in { q \in RandomDraws : q >= mutation_rate } }

\* lines 125-131: one individual, mutated in place
GeneticMutate ==
    /\ pc = "g_mutate"
    /\ i < Len(new_population)
    /\ \E d \in [ VarSet(optimizer) -> MutationDraws ] :
          LET a == new_population[i + 1]
              individual ==
                  [ var \in DOMAIN heap[a] |->
                      IF var \in VarSet(optimizer) /\ d[var].r < mutation_rate
                      THEN Mutated(heap[a][var], optimizer.bounds[var], d[var].z)
                      ELSE heap[a][var] ]
          IN  heap' = [ heap EXCEPT ![a] = individual ]
    /\ i' = i + 1
    /\ UNCHANGED << gradient_vars, pareto_vars, arg, optimizer, config, pc, result, population, new_population,
                    best_fitness, best_individual, fitness_scores,
                    fitness_history, generation, evaluated, evaluations,
                    model_calls >>

\* line 125, loop exhausted; line 133: population = new_population
GeneticNextGeneration ==
    /\ pc = "g_mutate"
    /\ i >= Len(new_population)
    /\ SetHeap(heap, new_population, new_population, best_individual)
    /\ generation' = generation + 1
    /\ pc' = "g_loop"
    /\ UNCHANGED << gradient_vars, pareto_vars, arg, optimizer, config, result, best_fitness, fitness_scores,
                    fitness_history, i, evaluated, evaluations, model_calls >>

\* Variant of the return that evaluates the model at its defaults when there
\* is no best individual, and returns.
GeneticReturnWithoutBest ==
    /\ pc = "g_loop"
    /\ LoopExhausted
    /\ ~ModelRaisesWithin(1)
    /\ IF best_individual = 0
       THEN /\ result' = Returned(
                   [ optimized_parameters |-> None,
                     fitness_score        |-> best_fitness,
                     performance_metrics  |-> system_performance(optimizer, << >>),
                     optimization_method  |-> "genetic_algorithm",
                     generations          |-> config.generations,
                     population_size      |-> config.population_size,
                     fitness_history      |-> fitness_history,
                     convergence          |-> calculate_convergence(fitness_history) ])
            /\ model_calls' = model_calls + 1
       ELSE /\ result' = Returned(
                   [ optimized_parameters |-> heap[best_individual],
                     fitness_score        |-> best_fitness,
                     performance_metrics  |->
                         system_performance(optimizer, heap[best_individual]),
                     optimization_method  |-> "genetic_algorithm",
                     generations          |-> config.generations,
                     population_size      |-> config.population_size,
                     fitness_history      |-> fitness_history,
                     convergence          |-> calculate_convergence(fitness_history) ])
            /\ model_calls' = model_calls + 1
    /\ pc' = "done"
    /\ UNCHANGED << gradient_vars, pareto_vars, arg, optimizer, config, genetic_vars >>

\* lines 136-147; _evaluate_system_performance(None) raises AttributeError
GeneticReturn ==
    /\ pc = "g_loop"
    /\ LoopExhausted
    /\ ~ModelRaisesWithin(1)
    /\ IF best_individual = 0
       THEN /\ result' = Raised("AttributeError")
            /\ UNCHANGED model_calls
       ELSE /\ result' = Returned(
                   [ optimized_parameters |-> heap[best_individual],
                     fitness_score        |-> best_fitness,
                     performance_metrics  |->
                         system_performance(optimizer, heap[best_individual]),
                     optimization_method  |-> "genetic_algorithm",
                     generations          |-> config.generations,
                     population_size      |-> config.population_size,
                     fitness_history      |-> fitness_history,
                     convergence          |-> calculate_convergence(fitness_history) ])
            /\ model_calls' = model_calls + 1
    /\ pc' = "done"
    /\ UNCHANGED << gradient_vars, pareto_vars, arg, optimizer, config, genetic_vars >>

(***************************************************************************)
(* _gradient_optimization (optimizer.py:149-207)                           *)
(***************************************************************************)
OptimizeGradient ==
    /\ pc = "optimize"
    /\ config.method = "gradient"
    /\ pc' = "gradient"
    /\ UNCHANGED << optimizer, config, result, genetic_vars, gradient_vars,
                    pareto_vars, arg, model_calls >>

\* _array_to_params (lines 369-380)
array_to_params(a) ==
    [ pressure_ratio        |-> a[1],
      max_turbine_temp      |-> a[2],
      compressor_efficiency |-> a[3],
      turbine_efficiency    |-> a[4],
      ad_retention_time     |-> a[5],
      htc_temperature       |-> a[6],
      htc_residence_time    |-> a[7] ]

\* lines 354-357: the two probes of dimension j
XPlus(a, j, step) == [ a EXCEPT ![j] = @ + step ]
XMinus(a, j, step) == [ a EXCEPT ![j] = @ - step ]

\* _numerical_gradient (lines 347-367), in thousandths
numerical_gradient(opt, a, objectives, step) ==
    [ j \in 1..Len(a) |->
        LET fitness_plus ==
                evaluate_fitness(opt, array_to_params(XPlus(a, j, step)), objectives)
            fitness_minus ==
                evaluate_fitness(opt, array_to_params(XMinus(a, j, step)), objectives)
        IN  TruncDiv(fitness_plus - fitness_minus, 2 * step) ]

\* Variant of the step that is not clipped.
UnclippedStep(opt, a, gradient) ==
    [ j \in 1..Len(a) |-> a[j] + TruncDiv(learning_rate * gradient[j], 1000) ]

\* lines 179-183: the step, clipped to the bounds in every dimension
ClippedStep(opt, a, gradient) ==
    LET bounds == [ j \in 1..Len(a) |-> opt.bounds[BoundKeys[j]] ]
    IN  [ j \in 1..Len(a) |->
            Clip(a[j] + TruncDiv(learning_rate * gradient[j], 1000),
                 bounds[j][1], bounds[j][2]) ]

\* the square of np.linalg.norm
NormSq(d) == SumSeq([ j \in 1..Len(d) |-> d[j] * d[j] ])

\* Variant of the convergence test with <= in place of <.
StepWithinTolerance(a, b) ==
    NormSq([ j \in 1..Len(a) |-> b[j] - a[j] ]) <= tolerance * tolerance

\* line 186
StepBelowTolerance(a, b) ==
    NormSq([ j \in 1..Len(a) |-> b[j] - a[j] ]) < tolerance * tolerance

\* Variant of the initialization that records the fitness of the initial guess.
GradientInitRecordsGuess ==
    /\ pc = "gradient"
    /\ x' = << 12000, 1400000, 850, 880, 20000, 473000, 2000 >>
    /\ history' = << evaluate_fitness(optimizer, array_to_params(x'),
                                      config.objectives) >>
    /\ iteration' = -1
    /\ pc' = "gr_loop"
    /\ UNCHANGED << optimizer, config, result, genetic_vars, x_new, pareto_vars,
                    arg, model_calls >>

\* Variant of the initialization that draws the first pressure ratio at random.
GradientInitRandom ==
    /\ pc = "gradient"
    /\ \E u \in UniformDraws :
          x' = << 3000 + (22000 * u) \div 1000, 1400000, 850, 880, 20000, 473000,
                  2000 >>
    /\ history' = << >>
    /\ iteration' = -1
    /\ pc' = "gr_loop"
    /\ UNCHANGED << optimizer, config, result, genetic_vars, x_new, pareto_vars,
                    arg, model_calls >>

\* lines 152-172
GradientInit ==
    /\ pc = "gradient"
    /\ x' = << 12000, 1400000, 850, 880, 20000, 473000, 2000 >>
    /\ history' = << >>
    /\ iteration' = -1
    /\ pc' = "gr_loop"
    /\ UNCHANGED << optimizer, config, result, genetic_vars, x_new, pareto_vars,
                    arg, model_calls >>

\* lines 174-194: one iteration
GradientStep ==
    /\ pc = "gr_loop"
    /\ iteration + 1 < max_iterations
    /\ iteration' = iteration + 1
    /\ ~ModelRaisesWithin(2 * Len(x))
    /\ LET gradient == numerical_gradient(optimizer, x, config.objectives, h)
           xn == ClippedStep(optimizer, x, gradient)
       IN  /\ x_new' = xn
           /\ IF StepBelowTolerance(x, xn)
              THEN /\ pc' = "gr_return"
                   /\ model_calls' = model_calls + 2 * Len(x)
                   /\ UNCHANGED << x, history >>
              ELSE /\ ~ModelRaisesWithin(2 * Len(x) + 1)
                   /\ x' = xn
                   /\ history' =
                          Append(history,
                                 evaluate_fitness(optimizer, array_to_params(xn),
                                                  config.objectives))
                   /\ model_calls' = model_calls + 2 * Len(x) + 1
                   /\ UNCHANGED pc
    /\ UNCHANGED << optimizer, config, result, genetic_vars, pareto_vars, arg >>

\* line 174, range exhausted
GradientExhausted ==
    /\ pc = "gr_loop"
    /\ iteration + 1 >= max_iterations
    /\ pc' = "gr_return"
    /\ UNCHANGED << optimizer, config, result, genetic_vars, gradient_vars,
                    pareto_vars, arg, model_calls >>

\* lines 196-207
GradientReturn ==
    /\ pc = "gr_return"
    /\ ~ModelRaisesWithin(1)
    /\ LET final_params == array_to_params(x)
       IN  result' = Returned(
               [ optimized_parameters |-> final_params,
                 fitness_score        |->
                     IF history # << >> THEN history[Len(history)] ELSE 0,
                 performance_metrics  |-> system_performance(optimizer, final_params),
                 optimization_method  |-> "gradient_descent",
                 iterations           |-> iteration + 1,
                 fitness_history      |-> history,
                 convergence          |-> calculate_convergence(history) ])
    /\ model_calls' = model_calls + 1
    /\ pc' = "done"
    /\ UNCHANGED << optimizer, config, genetic_vars, gradient_vars, pareto_vars,
                    arg >>

(***************************************************************************)
(* _check_constraints (optimizer.py:382-398)                               *)
(***************************************************************************)
\* Variant of the constraint check that never tests max_cost.
check_constraints_no_cost(performance, constraints) ==
    IF /\ "min_efficiency" \in DOMAIN constraints
       /\ Get(performance, "overall_efficiency", 0) < constraints["min_efficiency"]
    THEN FALSE
    ELSE IF /\ "min_self_sufficiency" \in DOMAIN constraints
            /\ Get(performance, "self_sufficiency_ratio", 0)
                   < constraints["min_self_sufficiency"]
    THEN FALSE
    ELSE TRUE

\* Variant of the constraint check that rejects a metric equal to its threshold.
check_constraints_strict(performance, constraints) ==
    IF /\ "min_efficiency" \in DOMAIN constraints
       /\ Get(performance, "overall_efficiency", 0) <= constraints["min_efficiency"]
    THEN FALSE
    ELSE IF /\ "max_cost" \in DOMAIN constraints
            /\ Get(performance, "specific_cost", 0) >= constraints["max_cost"]
    THEN FALSE
    ELSE IF /\ "min_self_sufficiency" \in DOMAIN constraints
            /\ Get(performance, "self_sufficiency_ratio", 0)
                   <= constraints["min_self_sufficiency"]
    THEN FALSE
    ELSE TRUE

check_constraints(performance, constraints) ==
    IF /\ "min_efficiency" \in DOMAIN constraints
       /\ Get(performance, "overall_efficiency", 0) < constraints["min_efficiency"]
    THEN FALSE
    ELSE IF /\ "max_cost" \in DOMAIN constraints
            /\ Get(performance, "specific_cost", 0) > constraints["max_cost"]
    THEN FALSE
    ELSE IF /\ "min_self_sufficiency" \in DOMAIN constraints
            /\ Get(performance, "self_sufficiency_ratio", 0)
                   < constraints["min_self_sufficiency"]
    THEN FALSE
    ELSE TRUE

(***************************************************************************)
(* _pareto_optimization (optimizer.py:209-269)                             *)
(***************************************************************************)
OptimizePareto ==
    /\ pc = "optimize"
    /\ config.method = "pareto"
    /\ pc' = "pareto"
    /\ UNCHANGED << optimizer, config, result, genetic_vars, gradient_vars,
                    pareto_vars, arg, model_calls >>

\* np.linspace(start, stop, num)[m], m from 0
Linspace(start, stop, num, m) == start + (m * (stop - start)) \div (num - 1)

\* truth value of a constraints argument: None and {} are false
Truthy(d) == d # None /\ DOMAIN d # {}

\* Variant of the dominance test that asks for strict improvement in all three.
DominatesStrictly(other, sol) ==
    /\ other.efficiency > sol.efficiency
    /\ other.power > sol.power
    /\ other.cost < sol.cost

\* Variant of the dominance test without the strict inequality.
DominatesWeakly(other, sol) ==
    /\ other.efficiency >= sol.efficiency
    /\ other.power >= sol.power
    /\ other.cost <= sol.cost

\* lines 250-255: other dominates sol
Dominates(other, sol) ==
    /\ other.efficiency >= sol.efficiency
    /\ other.power >= sol.power
    /\ other.cost <= sol.cost
    /\ \/ other.efficiency > sol.efficiency
       \/ other.power > sol.power
       \/ other.cost < sol.cost

\* Variant of the sort without reverse=True (ascending).
RECURSIVE SortByEfficiencyAscending(_)
SortByEfficiencyAscending(s) ==
    IF s = << >> THEN << >>
    ELSE LET sorted == SortByEfficiencyAscending(SubSeq(s, 1, Len(s) - 1))
             e      == s[Len(s)]
             pos    == Cardinality({ m \in 1..Len(sorted) :
                                       sorted[m].efficiency <= e.efficiency })
         IN  SubSeq(sorted, 1, pos) \o << e >> \o SubSeq(sorted, pos + 1, Len(sorted))

\* list.sort(key = efficiency, reverse = True): stable, descending
RECURSIVE SortByEfficiency(_)
SortByEfficiency(s) ==
    IF s = << >> THEN << >>
    ELSE LET sorted == SortByEfficiency(SubSeq(s, 1, Len(s) - 1))
             e      == s[Len(s)]
             pos    == Cardinality({ m \in 1..Len(sorted) :
                                       sorted[m].efficiency >= e.efficiency })
         IN  SubSeq(sorted, 1, pos) \o << e >> \o SubSeq(sorted, pos + 1, Len(sorted))

\* lines 213-217
ParetoInit ==
    /\ pc = "pareto"
    /\ solutions' = << >>
    /\ cursor' = 0
    /\ pc' = "p_sample"
    /\ UNCHANGED << optimizer, config, result, genetic_vars, gradient_vars,
                    pareto_frontier, arg, model_calls >>

\* lines 221-229: the parameters of grid point (a, b)
GridParams(a, b) ==
    [ pressure_ratio        |-> Linspace(3000, 25000, n_samples, a),
      max_turbine_temp      |-> Linspace(800000, 1600000, n_samples, b),
      compressor_efficiency |-> 850,
      turbine_efficiency    |-> 900,
      ad_retention_time     |-> 20000,
      htc_temperature       |-> 473000,
      htc_residence_time    |-> 2000 ]

\* lines 219-243: one grid point, pressure ratios outermost
ParetoSample ==
    /\ pc = "p_sample"
    /\ cursor < n_samples * n_samples
    /\ ~ModelRaisesWithin(1)
    /\ LET params == GridParams(cursor \div n_samples, cursor % n_samples)
           performance == system_performance(optimizer, params)
       IN  IF Truthy(config.constraints)
              /\ ~check_constraints(performance, config.constraints)
           THEN UNCHANGED solutions
           ELSE solutions' =
                    Append(solutions,
                           [ parameters  |-> params,
                             performance |-> performance,
                             efficiency  |-> Get(performance, "overall_efficiency", 0),
                             power       |-> Get(performance, "net_power_kw", 0),
                             cost        |-> Get(performance, "specific_cost", 1000000) ])
    /\ cursor' = cursor + 1
    /\ model_calls' = model_calls + 1
    /\ UNCHANGED << optimizer, config, pc, result, genetic_vars, gradient_vars,
                    pareto_frontier, arg >>

\* line 219, grid exhausted; lines 246-247
ParetoSampleDone ==
    /\ pc = "p_sample"
    /\ cursor >= n_samples * n_samples
    /\ pareto_frontier' = << >>
    /\ cursor' = 0
    /\ pc' = "p_filter"
    /\ UNCHANGED << optimizer, config, result, genetic_vars, gradient_vars,
                    solutions, arg, model_calls >>

\* lines 247-260: one solution
ParetoFilter ==
    /\ pc = "p_filter"
    /\ cursor < Len(solutions)
    /\ LET sol == solutions[cursor + 1]
           is_dominated ==
               \E m \in 1..Len(solutions) : Dominates(solutions[m], sol)
       IN  pareto_frontier' =
               IF ~is_dominated THEN Append(pareto_frontier, sol)
               ELSE pareto_frontier
    /\ cursor' = cursor + 1
    /\ UNCHANGED << optimizer, config, pc, result, genetic_vars, gradient_vars,
                    solutions, arg, model_calls >>

\* line 247, loop exhausted; lines 262-269
ParetoReturn ==
    /\ pc = "p_filter"
    /\ cursor >= Len(solutions)
    /\ pareto_frontier' = SortByEfficiency(pareto_frontier)
    /\ result' = Returned(
           [ pareto_frontier      |-> pareto_frontier',
             all_solutions        |-> solutions,
             optimization_method  |-> "pareto",
             num_pareto_solutions |-> Len(pareto_frontier') ])
    /\ pc' = "done"
    /\ UNCHANGED << optimizer, config, genetic_vars, gradient_vars, solutions,
                    cursor, arg, model_calls >>

(***************************************************************************)
(* A call of the performance model that raises.  No call of the model is   *)
(* inside a try (optimizer.py has none), so the error leaves the strategy  *)
(* and optimize() at once.                                                 *)
(***************************************************************************)
\* the calls of the model that the step at pc makes
CallsOfStep ==
    CASE pc = "g_loop" /\ ~LoopExhausted -> Len(population)
      [] pc = "g_loop" /\ LoopExhausted -> 1
      [] pc = "gr_loop" /\ iteration + 1 < max_iterations ->
             IF StepBelowTolerance(x, ClippedStep(optimizer, x,
                    numerical_gradient(optimizer, x, config.objectives, h)))
             THEN 2 * Len(x)
             ELSE 2 * Len(x) + 1
      [] pc = "gr_return" -> 1
      [] pc = "p_sample" /\ cursor < n_samples * n_samples -> 1
      [] OTHER -> 0

\* Variant in which optimize() catches the error and returns it as a result.
ModelRaisesCaught ==
    /\ ModelRaisesWithin(CallsOfStep)
    /\ result' = Returned([ error |-> optimizer.raises ])
    /\ model_calls' = RaisesOnCall(optimizer)
    /\ pc' = "done"
    /\ UNCHANGED << optimizer, config, genetic_vars, gradient_vars, pareto_vars,
                    arg >>

ModelRaises ==
    /\ ModelRaisesWithin(CallsOfStep)
    /\ result' = Raised(optimizer.raises)
    /\ model_calls' = RaisesOnCall(optimizer)
    /\ pc' = "done"
    /\ UNCHANGED << optimizer, config, genetic_vars, gradient_vars, pareto_vars,
                    arg >>

(***************************************************************************)
(* optimize, unknown method (optimizer.py:61-62)                           *)
(***************************************************************************)
\* Variant of the last branch that falls back to the genetic strategy.
OptimizeUnknownFallsBack ==
    /\ pc = "optimize"
    /\ config.method \notin { "genetic", "gradient", "pareto" }
    /\ pc' = "genetic"
    /\ UNCHANGED << optimizer, config, result, genetic_vars, gradient_vars,
                    pareto_vars, arg, model_calls >>

OptimizeUnknown ==
    /\ pc = "optimize"
    /\ config.method \notin { "genetic", "gradient", "pareto" }
    /\ result' = Raised("ValueError")
    /\ pc' = "done"
    /\ UNCHANGED << optimizer, config, genetic_vars, gradient_vars, pareto_vars,
                    arg, model_calls >>

(***************************************************************************)
(* A direct call of _evaluate_fitness (optimizer.py:271-301)               *)
(***************************************************************************)
CallEvaluateFitness ==
    /\ pc = "evaluate_fitness"
    /\ result' = Returned(evaluate_fitness(optimizer, arg, config.objectives))
    /\ model_calls' = model_calls + 1
    /\ pc' = "done"
    /\ UNCHANGED << optimizer, config, genetic_vars, gradient_vars, pareto_vars,
                    arg >>

(***************************************************************************)
(* Specifications                                                          *)
(***************************************************************************)
InitLocalsOf(opt, a) ==
    /\ optimizer = opt
    /\ result = Running
    /\ heap = << >>
    /\ population = << >>
    /\ new_population = << >>
    /\ best_fitness = 0
    /\ best_individual = 0
    /\ fitness_scores = << >>
    /\ fitness_history = << >>
    /\ generation = 0
    /\ i = 0
    /\ x = << >>
    /\ x_new = << >>
    /\ history = << >>
    /\ iteration = 0
    /\ solutions = << >>
    /\ pareto_frontier = << >>
    /\ cursor = 0
    /\ arg = a
    /\ evaluated = {}
    /\ evaluations = 0
    /\ model_calls = 0

InitLocalsBut(a) == InitLocalsOf(NewSystemOptimizer, a)

InitLocals == InitLocalsBut(<< >>)

InitGenetic ==
    /\ InitLocals
    /\ pc = "optimize"
    /\ \E objectives \in GeneticObjectives :
       \E population_size \in PopulationSizes :
       \E generations \in 0..MaxGenerations :
          config = [ objectives |-> objectives, constraints |-> None,
                     method |-> "genetic", population_size |-> population_size,
                     generations |-> generations ]

NextGenetic ==
    \/ OptimizeGenetic
    \/ GeneticInit
    \/ GeneticEvaluate
    \/ GeneticSelect
    \/ GeneticSelectDone
    \/ GeneticCrossover
    \/ GeneticCrossoverDone
    \/ GeneticMutate
    \/ GeneticNextGeneration
    \/ GeneticReturn

SpecGenetic == InitGenetic /\ [][NextGenetic]_vars

\* One tournament of the selection (lines 99-101), called on its own with given
\* scores and sampled positions.
CallTournamentWinner ==
    /\ pc = "tournament"
    /\ result' = Returned(TournamentWinner(arg.fitness_scores, arg.tournament_idx))
    /\ pc' = "done"
    /\ UNCHANGED << optimizer, config, genetic_vars, gradient_vars, pareto_vars,
                    arg, model_calls >>

\* scores of a population of 1 to 3, and 3 positions sampled with replacement
TournamentScores == { -100000, 0, 365030 }

InitTournament ==
    /\ pc = "tournament"
    /\ \E n \in 1..3 :
       \E scores \in [ 1..n -> TournamentScores ] :
       \E tournament_idx \in [ 1..tournament_size -> 1..n ] :
          InitLocalsBut([ fitness_scores |-> scores,
                          tournament_idx |-> tournament_idx ])
    /\ \E objectives \in GeneticObjectives :
          config = [ objectives |-> objectives, constraints |-> None,
                     method |-> "genetic", population_size |-> 3,
                     generations |-> 1 ]

\* The crossover of one pair (lines 107-119), called on its own with two
\* parents that have every variable and with every crossover point that
\* np.random.randint(1, len(variables)) can draw.
CallChildren ==
    /\ pc = "children"
    /\ result' = Returned(Children(BoundKeys, arg.parent1, arg.parent2,
                                   arg.crossover_point))
    /\ pc' = "done"
    /\ UNCHANGED << optimizer, config, genetic_vars, gradient_vars, pareto_vars,
                    arg, model_calls >>

\* individuals with every variable: on the lower bounds, on the upper bounds,
\* alternating, and in between
Parents ==
    { [ var \in DOMAIN InitialBounds |-> InitialBounds[var][1] ],
      [ var \in DOMAIN InitialBounds |-> InitialBounds[var][2] ],
      [ var \in DOMAIN InitialBounds |->
          InitialBounds[var][1 + (IndexOf(BoundKeys, var) % 2)] ],
      [ var \in DOMAIN InitialBounds |->
          (InitialBounds[var][1] + InitialBounds[var][2]) \div 2 ] }

InitChildren ==
    /\ pc = "children"
    /\ \E parent1 \in Parents : \E parent2 \in Parents :
       \E crossover_point \in 1..(Len(BoundKeys) - 1) :
          InitLocalsBut([ parent1 |-> parent1, parent2 |-> parent2,
                          crossover_point |-> crossover_point ])
    /\ \E objectives \in GeneticObjectives :
          config = [ objectives |-> objectives, constraints |-> None,
                     method |-> "genetic", population_size |-> 2,
                     generations |-> 1 ]

\* the crossover inside genetic runs, and the crossover of one pair on its own
NextCrossover ==
    \/ NextGenetic
    \/ CallChildren

SpecCrossover == (InitGenetic \/ InitChildren) /\ [][NextCrossover]_vars

\* the selection inside genetic runs, and its tournament on its own
NextSelection ==
    \/ NextGenetic
    \/ CallTournamentWinner

SpecSelection == (InitGenetic \/ InitTournament) /\ [][NextSelection]_vars

GradientObjectives ==
    { << >>,
      [ maximize |-> {"efficiency"} ],
      [ maximize |-> {"efficiency"}, weights |-> [ efficiency |-> 100 ] ],
      [ minimize |-> {"specific_cost"} ],
      [ minimize |-> {"specific_cost"}, weights |-> [ specific_cost |-> 100 ] ],
      [ minimize |-> {"specific_cost"}, weights |-> [ specific_cost |-> 5 ] ],
      [ maximize |-> {"self_sufficiency"}, minimize |-> {} ],
      [ maximize |-> {"efficiency", "power_output", "self_sufficiency"},
        minimize |-> {"specific_cost"} ] }

InitGradient ==
    /\ InitLocals
    /\ pc = "optimize"
    /\ \E objectives \in GradientObjectives :
          config = [ objectives |-> objectives, constraints |-> None,
                     method |-> "gradient", population_size |-> 50,
                     generations |-> 100 ]

NextGradient ==
    \/ OptimizeGradient
    \/ GradientInit
    \/ GradientStep
    \/ GradientExhausted
    \/ GradientReturn

SpecGradient == InitGradient /\ [][NextGradient]_vars

\* gradient runs on an instance whose performance model is linear and strictly
\* increasing in every variable
LinearModels ==
    { << 1000, 10, 200, 300, 500, 10, 400 >>,
      << 20, 10, 50, 20, 1000, 30, 10 >> }

InitLinearGradient ==
    /\ \E c \in LinearModels :
          InitLocalsOf(NewSystemOptimizer @@ [ linear_model |-> c ], << >>)
    /\ pc = "optimize"
    /\ \E objectives \in { [ maximize |-> {"efficiency"} ],
                            [ maximize |-> {"efficiency"},
                              weights |-> [ efficiency |-> 20 ] ] } :
          config = [ objectives |-> objectives, constraints |-> None,
                     method |-> "gradient", population_size |-> 50,
                     generations |-> 100 ]

SpecLinearGradient == InitLinearGradient /\ [][NextGradient]_vars

\* a step that calls the performance model can be taken
ModelStepEnabled ==
    \/ pc = "gr_loop" /\ iteration + 1 < max_iterations
    \/ pc = "gr_return"

\* The call runs to its end on its own thread: a step that can be taken is
\* taken.  Weak fairness of the two steps that call the performance model is
\* written out with their enabling condition.
SpecGradientFair ==
    /\ SpecGradient
    /\ WF_vars(OptimizeGradient \/ GradientInit \/ GradientExhausted)
    /\ ([]<>(~ModelStepEnabled) \/ []<><<GradientStep \/ GradientReturn>>_vars)


\* thresholds in the units of the metrics (millionths, thousandths of $/kW)
ParetoConstraints ==
    { None,
      << >>,
      [ min_efficiency |-> 400000 ],
      [ max_cost |-> 1100000 ],
      [ min_self_sufficiency |-> 950000 ],
      [ min_self_sufficiency |-> 500000 ],
      [ min_efficiency |-> 400000, max_cost |-> 1200000 ],
      [ min_efficiency |-> 200000, max_cost |-> 1200000,
        min_self_sufficiency |-> 900000 ],
      [ max_emissions |-> 0 ] }

InitPareto ==
    /\ InitLocals
    /\ pc = "optimize"
    /\ \E constraints \in ParetoConstraints :
          config = [ objectives |-> [ maximize |-> {"efficiency"} ],
                     constraints |-> constraints, method |-> "pareto",
                     population_size |-> 50, generations |-> 100 ]

NextPareto ==
    \/ OptimizePareto
    \/ ParetoInit
    \/ ParetoSample
    \/ ParetoSampleDone
    \/ ParetoFilter
    \/ ParetoReturn

SpecPareto == InitPareto /\ [][NextPareto]_vars

\* Pareto runs on instances whose performance model gives several grid points
\* the same efficiency, power and cost: an efficiency that depends on the
\* pressure ratio only, and one that trades pressure ratio for temperature
TiedModels ==
    { << 400, 0, 0, 0, 0, 0, 0 >>,
      << 400, 11, 0, 0, 0, 0, 0 >> }

InitParetoTied ==
    /\ \E c \in TiedModels :
          InitLocalsOf(NewSystemOptimizer @@ [ linear_model |-> c ], << >>)
    /\ pc = "optimize"
    /\ \E constraints \in { None, [ min_efficiency |-> 6000000 ] } :
          config = [ objectives |-> [ maximize |-> {"efficiency"} ],
                     constraints |-> constraints, method |-> "pareto",
                     population_size |-> 50, generations |-> 100 ]

SpecParetoTied == (InitPareto \/ InitParetoTied) /\ [][NextPareto]_vars

\* a method that is none of the three
InitUnknown ==
    /\ InitLocals
    /\ pc = "optimize"
    /\ \E method \in { "simulated_annealing", "GENETIC", "" } :
          config = [ objectives |-> [ maximize |-> {"efficiency"} ],
                     constraints |-> None, method |-> method,
                     population_size |-> 50, generations |-> 100 ]

\* optimize() with every method
Init == InitGenetic \/ InitGradient \/ InitPareto \/ InitUnknown

Next ==
    \/ NextGenetic
    \/ NextGradient
    \/ NextPareto
    \/ OptimizeUnknown

Spec == Init /\ [][Next]_vars

\* A second call of optimize() on the same instance with the same config, once
\* the first has returned: the first result is kept in arg, and the locals of
\* the new call are those of a new frame.
OptimizeAgain ==
    /\ pc = "done"
    /\ result.status = "returned"
    /\ arg = << >>
    /\ arg' = result
    /\ pc' = "optimize"
    /\ result' = Running
    /\ heap' = << >>
    /\ population' = << >>
    /\ new_population' = << >>
    /\ best_fitness' = 0
    /\ best_individual' = 0
    /\ fitness_scores' = << >>
    /\ fitness_history' = << >>
    /\ generation' = 0
    /\ i' = 0
    /\ x' = << >>
    /\ x_new' = << >>
    /\ history' = << >>
    /\ iteration' = 0
    /\ solutions' = << >>
    /\ pareto_frontier' = << >>
    /\ cursor' = 0
    /\ evaluated' = {}
    /\ evaluations' = 0
    /\ model_calls' = 0
    /\ UNCHANGED << optimizer, config >>

InitTwoRuns ==
    \/ InitGradient
    \/ InitPareto
    \/ /\ InitLocals
       /\ pc = "optimize"
       /\ \E objectives \in GeneticObjectives :
          \E population_size \in { 1, 2 } :
             config = [ objectives |-> objectives, constraints |-> None,
                        method |-> "genetic", population_size |-> population_size,
                        generations |-> 1 ]

NextTwoRuns ==
    \/ NextGenetic
    \/ NextGradient
    \/ NextPareto
    \/ OptimizeAgain

SpecTwoRuns == InitTwoRuns /\ [][NextTwoRuns]_vars

\* Two calls of optimize() on the same instance, interleaved.  Everything a
\* strategy assigns is a local of its call (lines 66-81, 152-172, 212-217); the
\* instance holds bounds and reference values only (lines 33-45).  The
\* variables of the model are the locals of the call that is running, and the
\* frame of the call that is not running is kept aside.
CurrentFrame ==
    [ pc |-> pc, result |-> result, heap |-> heap,
      population |-> population, new_population |-> new_population,
      best_fitness |-> best_fitness,
      best_individual |-> best_individual,
      fitness_scores |-> fitness_scores,
      fitness_history |-> fitness_history, generation |-> generation,
      i |-> i, x |-> x, x_new |-> x_new, history |-> history,
      iteration |-> iteration, solutions |-> solutions,
      pareto_frontier |-> pareto_frontier, cursor |-> cursor,
      evaluated |-> evaluated, evaluations |-> evaluations,
      model_calls |-> model_calls ]

NewFrame ==
    [ pc |-> "optimize", result |-> Running, heap |-> << >>,
      population |-> << >>, new_population |-> << >>,
      best_fitness |-> 0, best_individual |-> 0,
      fitness_scores |-> << >>, fitness_history |-> << >>,
      generation |-> 0, i |-> 0, x |-> << >>, x_new |-> << >>,
      history |-> << >>, iteration |-> 0, solutions |-> << >>,
      pareto_frontier |-> << >>, cursor |-> 0, evaluated |-> {},
      evaluations |-> 0, model_calls |-> 0 ]

\* Variant of the resumption in which the fitness history is not a local of
\* the call but is left where the other call put it.
ResumeSharingHistory(f) ==
    /\ pc' = f.pc
    /\ result' = f.result
    /\ heap' = f.heap
    /\ population' = f.population
    /\ new_population' = f.new_population
    /\ best_fitness' = f.best_fitness
    /\ best_individual' = f.best_individual
    /\ fitness_scores' = f.fitness_scores
    /\ generation' = f.generation
    /\ i' = f.i
    /\ x' = f.x
    /\ x_new' = f.x_new
    /\ iteration' = f.iteration
    /\ solutions' = f.solutions
    /\ pareto_frontier' = f.pareto_frontier
    /\ cursor' = f.cursor
    /\ evaluated' = f.evaluated
    /\ evaluations' = f.evaluations
    /\ model_calls' = f.model_calls
    /\ UNCHANGED << history, fitness_history >>

\* the call with frame f goes on
Resume(f) ==
    /\ pc' = f.pc
    /\ result' = f.result
    /\ heap' = f.heap
    /\ population' = f.population
    /\ new_population' = f.new_population
    /\ best_fitness' = f.best_fitness
    /\ best_individual' = f.best_individual
    /\ fitness_scores' = f.fitness_scores
    /\ fitness_history' = f.fitness_history
    /\ generation' = f.generation
    /\ i' = f.i
    /\ x' = f.x
    /\ x_new' = f.x_new
    /\ history' = f.history
    /\ iteration' = f.iteration
    /\ solutions' = f.solutions
    /\ pareto_frontier' = f.pareto_frontier
    /\ cursor' = f.cursor
    /\ evaluated' = f.evaluated
    /\ evaluations' = f.evaluations
    /\ model_calls' = f.model_calls

\* once a call made alone has returned, two calls with the same config begin
StartTwoCalls ==
    /\ pc = "done"
    /\ result.status = "returned"
    /\ arg = << >>
    /\ arg' = [ alone |-> result, other |-> NewFrame ]
    /\ Resume(NewFrame)
    /\ UNCHANGED << optimizer, config >>

\* the running call is suspended and the other one goes on
Switch ==
    /\ "other" \in DOMAIN arg
    /\ arg.other.pc # "done"
    /\ arg' = [ arg EXCEPT !.other = CurrentFrame ]
    /\ Resume(arg.other)
    /\ UNCHANGED << optimizer, config >>

InitInterleaved ==
    /\ InitLocals
    /\ pc = "optimize"
    /\ \/ \E objectives \in GeneticObjectives :
             config = [ objectives |-> objectives, constraints |-> None,
                        method |-> "genetic", population_size |-> 1,
                        generations |-> 1 ]
       \/ \E objectives \in { << >>, [ maximize |-> { "efficiency" } ] } :
             config = [ objectives |-> objectives, constraints |-> None,
                        method |-> "gradient", population_size |-> 50,
                        generations |-> 100 ]
       \/ \E constraints \in { None, [ max_cost |-> 1100000 ] } :
             config = [ objectives |-> [ maximize |-> { "efficiency" } ],
                        constraints |-> constraints, method |-> "pareto",
                        population_size |-> 50, generations |-> 100 ]

\* The steps of the three strategies that the calls of InitInterleaved take: a
\* population of one has no pair to cross (line 104), and none of these
\* gradient runs reaches the iteration limit (line 168).
NextInterleaved ==
    \/ OptimizeGenetic
    \/ GeneticInit
    \/ GeneticEvaluate
    \/ GeneticSelect
    \/ GeneticSelectDone
    \/ GeneticCrossoverDone
    \/ GeneticMutate
    \/ GeneticNextGeneration
    \/ GeneticReturn
    \/ OptimizeGradient
    \/ GradientInit
    \/ GradientStep
    \/ GradientReturn
    \/ NextPareto
    \/ StartTwoCalls
    \/ Switch

SpecInterleaved == InitInterleaved /\ [][NextInterleaved]_vars

\* optimize() on an instance whose performance model raises on one of its calls
RaisingCalls == { 1, 2, 3, 5, 9, 14, 15, 16, 15001 }

RaisingOptimizers ==
    { [ k \in DOMAIN NewSystemOptimizer \cup { "raises_on_call", "raises" } |->
          CASE k = "raises_on_call" -> n
            [] k = "raises" -> e
            [] OTHER -> NewSystemOptimizer[k] ] :
        n \in RaisingCalls, e \in { "RuntimeError" } }
    \cup
    { [ k \in DOMAIN NewSystemOptimizer \cup { "raises_on_call", "raises" } |->
          CASE k = "raises_on_call" -> 1
            [] k = "raises" -> "ZeroDivisionError"
            [] OTHER -> NewSystemOptimizer[k] ] }

InitModelRaises ==
    /\ \E opt \in RaisingOptimizers : InitLocalsOf(opt, << >>)
    /\ pc = "optimize"
    /\ \/ \E objectives \in GeneticObjectives :
          \E population_size \in { 1, 2 } :
          \E generations \in 1..MaxGenerations :
             config = [ objectives |-> objectives, constraints |-> None,
                        method |-> "genetic", population_size |-> population_size,
                        generations |-> generations ]
       \/ \E objectives \in { << >>, [ maximize |-> { "efficiency" } ],
                               [ maximize |-> { "efficiency" },
                                 weights |-> [ efficiency |-> 100 ] ] } :
             config = [ objectives |-> objectives, constraints |-> None,
                        method |-> "gradient", population_size |-> 50,
                        generations |-> 100 ]
       \/ \E constraints \in { None, [ max_cost |-> 1100000 ] } :
             config = [ objectives |-> [ maximize |-> { "efficiency" } ],
                        constraints |-> constraints, method |-> "pareto",
                        population_size |-> 50, generations |-> 100 ]

NextModelRaises ==
    \/ NextGenetic
    \/ NextGradient
    \/ NextPareto
    \/ ModelRaises

SpecModelRaises == InitModelRaises /\ [][NextModelRaises]_vars

\* optimize() with objectives that ask for nothing: maximize and minimize
\* empty or missing
EmptyObjectives ==
    { << >>,
      [ maximize |-> {}, minimize |-> {} ],
      [ weights |-> [ efficiency |-> 20, specific_cost |-> 30 ] ],
      [ maximize |-> {}, weights |-> [ power_output |-> 50 ] ] }

InitEmptyObjectives ==
    /\ InitLocals
    /\ pc = "optimize"
    /\ \E objectives \in EmptyObjectives :
          \/ \E population_size \in PopulationSizes \ { 3 } :
             \E generations \in 0..MaxGenerations :
                config = [ objectives |-> objectives, constraints |-> None,
                           method |-> "genetic", population_size |-> population_size,
                           generations |-> generations ]
          \/ config = [ objectives |-> objectives, constraints |-> None,
                        method |-> "gradient", population_size |-> 50,
                        generations |-> 100 ]
          \/ \E constraints \in { None, [ max_cost |-> 1100000 ] } :
                config = [ objectives |-> objectives, constraints |-> constraints,
                           method |-> "pareto", population_size |-> 50,
                           generations |-> 100 ]

\* the runs above, next to gradient runs whose objectives do ask for something
SpecEmptyObjectives ==
    (InitEmptyObjectives \/ InitGradient)
        /\ [][NextGenetic \/ NextGradient \/ NextPareto]_vars

\* _evaluate_fitness on its own
EvaluateParameters ==
    { [ pressure_ratio |-> p, max_turbine_temp |-> t,
        compressor_efficiency |-> 850, turbine_efficiency |-> e,
        ad_retention_time |-> rt, htc_temperature |-> 473000,
        htc_residence_time |-> 2000 ] :
        p \in { 3000, 12500, 25000 }, t \in { 800000, 1600000 },
        e \in { 800, 950 }, rt \in { 10000, 40000 } }

EvaluateWeights ==
    { << >>,
      [ efficiency |-> 20, specific_cost |-> 30 ],
      [ power_output |-> 20, self_sufficiency |-> 50, specific_cost |-> 0 ] }

\* objectives that also list names the evaluator does not know, or knows only
\* in the other list
ObjectivesWithOtherNames ==
    { [ maximize |-> mx \cup omx, minimize |-> mn \cup omn, weights |-> w ] :
        mx \in { {}, { "efficiency" }, { "power_output", "self_sufficiency" } },
        mn \in { {}, { "specific_cost" } },
        omx \in { {}, { "emissions" }, { "specific_cost", "overall_efficiency" } },
        omn \in { {}, { "efficiency" }, { "power_output", "self_sufficiency", "cost" } },
        w \in { << >>, [ efficiency |-> 20, specific_cost |-> 30, emissions |-> 40 ] } }

EvaluateObjectives ==
    { [ maximize |-> mx, minimize |-> mn, weights |-> w ] :
        mx \in SUBSET { "efficiency", "power_output", "self_sufficiency" },
        mn \in { {}, { "specific_cost" } },
        w \in EvaluateWeights }
      \cup ObjectivesWithOtherNames
      \cup { << >>,
             [ maximize |-> { "efficiency", "power_output" } ],
             [ minimize |-> { "specific_cost" } ],
             [ maximize |-> { "self_sufficiency" }, minimize |-> { "specific_cost" } ] }

InitEvaluate ==
    /\ pc = "evaluate_fitness"
    /\ \E a \in EvaluateParameters : InitLocalsBut(a)
    /\ \E objectives \in EvaluateObjectives :
          config = [ objectives |-> objectives, constraints |-> None,
                     method |-> "genetic", population_size |-> 50,
                     generations |-> 100 ]

NextEvaluate == CallEvaluateFitness

SpecEvaluate == InitEvaluate /\ [][NextEvaluate]_vars

\* lines 276-301 on a performance record that the call of line 275 returned:
\* self._evaluate_system_performance is looked up on the instance, so the
\* record is whatever the performance model in place returns, with or without
\* each of the metrics
FitnessOfRecord ==
    /\ pc = "fitness_of"
    /\ result' = Returned(FitnessOf(optimizer, arg, config.objectives))
    /\ model_calls' = model_calls + 1
    /\ pc' = "done"
    /\ UNCHANGED << optimizer, config, genetic_vars, gradient_vars, pareto_vars,
                    arg >>

MetricKeys ==
    { "overall_efficiency", "net_power_kw", "self_sufficiency_ratio", "specific_cost" }

Restrict(f, K) == [ k \in (DOMAIN f) \cap K |-> f[k] ]

\* records of the built-in model at two parameter assignments, and what is left
\* of them when metrics are missing
PerformanceRecords ==
    { Restrict(evaluate_system_performance(a), K) :
        a \in { [ pressure_ratio |-> 3000 ], [ pressure_ratio |-> 25000 ] },
        K \in SUBSET MetricKeys }

InitFitnessOf ==
    /\ pc = "fitness_of"
    /\ \E performance \in PerformanceRecords : InitLocalsBut(performance)
    /\ \E objectives \in EvaluateObjectives :
          config = [ objectives |-> objectives, constraints |-> None,
                     method |-> "genetic", population_size |-> 50,
                     generations |-> 100 ]

NextFitnessOf == FitnessOfRecord

SpecFitnessOf == InitFitnessOf /\ [][NextFitnessOf]_vars

\* a direct call of _check_constraints (lines 382-398)
CallCheckConstraints ==
    /\ pc = "check_constraints"
    /\ result' = Returned(check_constraints(arg, config.constraints))
    /\ pc' = "done"
    /\ UNCHANGED << optimizer, config, genetic_vars, gradient_vars, pareto_vars,
                    arg, model_calls >>

\* a constraints dict: each key absent or with one of a few thresholds, some
\* of them the very values of the records above
ConstraintKeys == { "min_efficiency", "max_cost", "min_self_sufficiency", "max_emissions" }

ConstraintValues ==
    [ min_efficiency |->
          { 0, evaluate_system_performance([ pressure_ratio |-> 3000 ]).overall_efficiency,
            400000 },
      max_cost |->
          { 0, evaluate_system_performance([ pressure_ratio |-> 3000 ]).specific_cost,
            1200000 },
      min_self_sufficiency |-> { 0, 900000, 950000 },
      max_emissions |-> { 0 } ]

CheckedConstraints ==
    UNION { { c \in [ K -> UNION { ConstraintValues[k] : k \in K } ] :
                \A k \in K : c[k] \in ConstraintValues[k] } :
            K \in SUBSET ConstraintKeys }

InitCheckConstraints ==
    /\ pc = "check_constraints"
    /\ \E performance \in PerformanceRecords : InitLocalsBut(performance)
    /\ \E constraints \in CheckedConstraints :
          config = [ objectives |-> << >>, constraints |-> constraints,
                     method |-> "pareto", population_size |-> 50,
                     generations |-> 100 ]

NextCheckConstraints == CallCheckConstraints

SpecCheckConstraints == InitCheckConstraints /\ [][NextCheckConstraints]_vars

\* a direct call of _calculate_convergence (lines 400-414)
CallCalculateConvergence ==
    /\ pc = "calculate_convergence"
    /\ result' = Returned(calculate_convergence(arg))
    /\ pc' = "done"
    /\ UNCHANGED << optimizer, config, genetic_vars, gradient_vars, pareto_vars,
                    arg, model_calls >>

\* longest history of a direct call
MaxHistory == 12

\* fitness values of a history: negative, zero, and pairs that differ by 1e-6
\* and by 2e-3
HistoryValues == { -500000, 0, 365030, 365031, 367030 }

\* histories that hold one value up to some entry and another one after it
Histories ==
    { [ k \in 1..n |-> IF k <= c THEN a ELSE b ] :
        n \in 0..MaxHistory, c \in 0..MaxHistory, a \in HistoryValues,
        b \in HistoryValues }

InitCalculateConvergence ==
    /\ pc = "calculate_convergence"
    /\ \E hist \in Histories : InitLocalsBut(hist)
    /\ config = [ objectives |-> << >>, constraints |-> None, method |-> "gradient",
                  population_size |-> 50, generations |-> 100 ]

NextCalculateConvergence == CallCalculateConvergence

SpecCalculateConvergence ==
    InitCalculateConvergence /\ [][NextCalculateConvergence]_vars

(***************************************************************************)
(* Properties                                                              *)
(***************************************************************************)
GeneticReturned == pc = "done" /\ config.method = "genetic" /\ result.status = "returned"

\* C1: in every genetic run the fitness history is non-decreasing: each
\* entry is at least the entry of the generation before it.
HistoryNonDecreasing ==
    config.method = "genetic" =>
        \A g \in 2..Len(fitness_history) :
            fitness_history[g] >= fitness_history[g - 1]

\* a second generation whose every score is below the first generation's best
HistoryHeldAboveWorseGeneration ==
    /\ pc = "g_select"
    /\ Len(fitness_history) = 2
    /\ fitness_scores # << >>
    /\ \A m \in 1..Len(fitness_scores) : fitness_scores[m] < fitness_history[1]

InBounds(opt, individual) ==
    /\ DOMAIN individual = VarSet(opt)
    /\ \A var \in VarSet(opt) :
          /\ opt.bounds[var][1] <= individual[var]
          /\ individual[var] <= opt.bounds[var][2]

VectorInBounds(opt, a) ==
    \A j \in 1..Len(a) :
        /\ opt.bounds[BoundKeys[j]][1] <= a[j]
        /\ a[j] <= opt.bounds[BoundKeys[j]][2]

\* C3: in every gradient run the iterate lies within the bounds in every
\* dimension after every iteration, and so do the parameters returned.
IterateInBounds ==
    config.method = "gradient" =>
        /\ pc \in { "gr_loop", "gr_return", "done" } =>
              Len(x) = Len(BoundKeys) /\ VectorInBounds(optimizer, x)
        /\ pc = "done" =>
              /\ DOMAIN result.value.optimized_parameters = DOMAIN optimizer.bounds
              /\ \A var \in DOMAIN optimizer.bounds :
                    /\ optimizer.bounds[var][1] <= result.value.optimized_parameters[var]
                    /\ result.value.optimized_parameters[var] <= optimizer.bounds[var][2]

\* a run of several steps that ended with the pressure ratio on its lower bound
IterateStoppedOnBounds ==
    /\ config.method = "gradient"
    /\ pc = "done"
    /\ result.value.iterations > 1
    /\ result.value.optimized_parameters.pressure_ratio
          = optimizer.bounds.pressure_ratio[1]

\* B dominates A: no worse in efficiency, power and cost, better in one
DominatedBy(A, B) ==
    /\ B.efficiency >= A.efficiency
    /\ B.power >= A.power
    /\ B.cost <= A.cost
    /\ ~ (B.efficiency = A.efficiency /\ B.power = A.power /\ B.cost = A.cost)

ParetoReturned == pc = "done" /\ config.method = "pareto" /\ result.status = "returned"

\* C4: no solution of the returned Pareto frontier dominates another one.
FrontierNonDominated ==
    ParetoReturned =>
        LET f == result.value.pareto_frontier
        IN  \A a \in 1..Len(f) : \A b \in 1..Len(f) :
                a # b => ~DominatedBy(f[a], f[b])

\* a frontier of several solutions from which dominated candidates were removed
FrontierFiltered ==
    /\ ParetoReturned
    /\ Len(result.value.pareto_frontier) >= 2
    /\ Len(result.value.all_solutions) > Len(result.value.pareto_frontier)

\* the constraint thresholds that are present hold of a performance record
MeetsThresholds(performance, constraints) ==
    /\ "min_efficiency" \in DOMAIN constraints =>
          performance.overall_efficiency >= constraints.min_efficiency
    /\ "max_cost" \in DOMAIN constraints =>
          performance.specific_cost <= constraints.max_cost
    /\ "min_self_sufficiency" \in DOMAIN constraints =>
          performance.self_sufficiency_ratio >= constraints.min_self_sufficiency

GridPoints ==
    { GridParams(a, b) : a \in 0..(n_samples - 1), b \in 0..(n_samples - 1) }

SeqRange(s) == { s[m] : m \in 1..Len(s) }

\* C5: the candidates of a Pareto run are exactly the grid points whose
\* performance meets the supplied constraints, all n x n of them when the
\* constraints are None or empty; no candidate and no frontier solution
\* violates a threshold that is present.
CandidatesAreFeasibleGrid ==
    (config.method = "pareto" /\ pc \in { "p_filter", "done" }) =>
        LET supplied == config.constraints # None /\ config.constraints # << >>
            feasible ==
                IF supplied
                THEN { g \in GridPoints :
                         MeetsThresholds(evaluate_system_performance(g),
                                         config.constraints) }
                ELSE GridPoints
        IN  /\ { solutions[m].parameters : m \in 1..Len(solutions) } = feasible
            /\ Len(solutions) = Cardinality(feasible)
            /\ ~supplied => Len(solutions) = n_samples * n_samples
            /\ supplied =>
                  \A sol \in SeqRange(solutions) \cup SeqRange(pareto_frontier) :
                      MeetsThresholds(sol.performance, config.constraints)

\* a run whose constraints kept some grid points and discarded others
SomeCandidatesDiscarded ==
    /\ ParetoReturned
    /\ "max_cost" \in DOMAIN config.constraints
    /\ Len(solutions) > 0
    /\ Len(solutions) < n_samples * n_samples

\* at most max_iterations iterations, and a stop before the limit only on a
\* step shorter than the tolerance
GradientStopsWithinLimit ==
    config.method = "gradient" =>
        /\ iteration + 1 <= max_iterations
        /\ Len(history) <= max_iterations
        /\ (pc \in { "gr_return", "done" } /\ Len(history) < max_iterations) =>
              NormSq([ j \in 1..Len(x) |-> x_new[j] - x[j] ]) < tolerance * tolerance

GradientTerminates == <>(pc = "done")

\* C6: every gradient run ends, after at most max_iterations iterations, and
\* when it stops before the limit the step it computed last is shorter than
\* the tolerance.
GradientTermination == []GradientStopsWithinLimit /\ GradientTerminates

\* a run that stopped on the step test after several accepted steps
GradientStoppedEarly ==
    /\ config.method = "gradient"
    /\ pc = "done"
    /\ result.value.iterations > 2
    /\ result.value.iterations < max_iterations

\* C7: a genetic run that returns has made exactly config.generations
\* passes: its history has that many entries and the population was
\* evaluated that many times.
ExactlyGenerationsPasses ==
    GeneticReturned =>
        /\ Len(result.value.fitness_history) = config.generations
        /\ evaluations = config.generations
        /\ generation = config.generations

\* a returned run of two generations whose best did not change in the second
TwoPassesWithoutImprovement ==
    /\ GeneticReturned
    /\ config.generations = 2
    /\ fitness_history[1] = fitness_history[2]

SetMax(S) == CHOOSE v \in S : \A w \in S : w <= v

\* C8: the fitness a genetic run returns is the maximum over every individual
\* scored in any generation, the parameters returned are the values an
\* individual had when it was scored with that fitness, and the performance
\* record returned is the model applied to those parameters.
ReturnsBestEverScored ==
    GeneticReturned =>
        LET v == result.value
        IN  /\ v.fitness_score = SetMax({ e[2] : e \in evaluated })
            /\ << v.optimized_parameters, v.fitness_score >> \in evaluated
            /\ v.performance_metrics
                  = evaluate_system_performance(v.optimized_parameters)

\* a returned run whose best individual comes from the first generation: every
\* score of the last pass is below it, and no individual of the last
\* population has its values
BestFromEarlierGeneration ==
    /\ GeneticReturned
    /\ fitness_scores # << >>
    /\ \A m \in 1..Len(fitness_scores) : fitness_scores[m] < result.value.fitness_score
    /\ \A m \in 1..Len(population) :
          heap[population[m]] # result.value.optimized_parameters

GeneticPositions ==
    { "genetic", "g_loop", "g_select", "g_crossover", "g_mutate" }
GradientPositions == { "gradient", "gr_loop", "gr_return" }
ParetoPositions == { "pareto", "p_sample", "p_filter" }

\* no strategy has run: every local of every strategy is as it was
NoStrategyRan ==
    /\ heap = << >> /\ population = << >> /\ fitness_history = << >>
    /\ x = << >> /\ history = << >>
    /\ solutions = << >> /\ pareto_frontier = << >>

\* C9: optimize() runs exactly the strategy its method names, and for any
\* other method it raises ValueError without running a strategy or calling
\* the performance model.
DispatchByMethod ==
    /\ pc \in GeneticPositions => config.method = "genetic"
    /\ pc \in GradientPositions => config.method = "gradient"
    /\ pc \in ParetoPositions => config.method = "pareto"
    /\ (pc = "done" /\ config.method = "genetic" /\ result.status = "returned") =>
          result.value.optimization_method = "genetic_algorithm"
    /\ (pc = "done" /\ config.method = "gradient") =>
          result.status = "returned"
          /\ result.value.optimization_method = "gradient_descent"
    /\ (pc = "done" /\ config.method = "pareto") =>
          result.status = "returned" /\ result.value.optimization_method = "pareto"
    /\ config.method \notin { "genetic", "gradient", "pareto" } =>
          /\ pc \in { "optimize", "done" }
          /\ pc = "done" => result = Raised("ValueError")
          /\ NoStrategyRan
          /\ model_calls = 0

UnknownMethodRaised ==
    /\ pc = "done"
    /\ config.method = "simulated_annealing"
    /\ result = Raised("ValueError")

\* the term an objective adds to the fitness, by the name of the objective
ObjectiveTerm(opt, performance, name) ==
    CASE name = "efficiency" -> performance.overall_efficiency
      [] name = "power_output" -> (performance.net_power_kw * 10) \div opt.reference_power
      [] name = "self_sufficiency" -> performance.self_sufficiency_ratio
      [] name = "specific_cost" ->
             1000000 - (performance.specific_cost * 1000) \div opt.reference_cost

RECURSIVE SumOver(_, _)
SumOver(S, f) ==
    IF S = {} THEN 0
    ELSE LET name == CHOOSE n \in S : TRUE
         IN  f[name] + SumOver(S \ { name }, f)

\* C10: evaluate() returns the sum, from 0, of the weighted terms of the
\* objectives that are asked for: efficiency, power over the reference power
\* and self-sufficiency when they are in maximize, one minus cost over the
\* reference cost when specific_cost is in minimize; a weight that is absent
\* is 1.0.
FitnessIsWeightedSum ==
    pc = "done" =>
        LET objectives  == config.objectives
            weights     == IF "weights" \in DOMAIN objectives
                           THEN objectives.weights ELSE << >>
            asked       ==
                ((IF "maximize" \in DOMAIN objectives THEN objectives.maximize ELSE {})
                    \cap { "efficiency", "power_output", "self_sufficiency" })
                \cup ((IF "minimize" \in DOMAIN objectives THEN objectives.minimize ELSE {})
                        \cap { "specific_cost" })
            performance == evaluate_system_performance(arg)
            term(name)   == ObjectiveTerm(optimizer, performance, name)
            weight(name) == IF name \in DOMAIN weights THEN weights[name]
                            ELSE unit_weight
        IN  result = Returned(SumOver(asked,
                                      [ name \in asked |->
                                          Weighted(weight(name), term(name)) ]))

\* a call with all four objectives, a weight given for some and absent for others
FitnessOfAllFourObjectives ==
    /\ pc = "done"
    /\ DOMAIN config.objectives = { "maximize", "minimize", "weights" }
    /\ config.objectives.maximize = { "efficiency", "power_output", "self_sufficiency" }
    /\ config.objectives.minimize = { "specific_cost" }
    /\ DOMAIN config.objectives.weights = { "efficiency", "specific_cost" }
    /\ result.value # 0

\* the record with every missing metric taken as 0
MissingAsZero(performance) ==
    [ k \in MetricKeys |-> IF k \in DOMAIN performance THEN performance[k] ELSE 0 ]

\* the weighted sum of the asked objectives over a record that has every metric
WeightedSum(opt, performance, objectives) ==
    LET weights == IF "weights" \in DOMAIN objectives THEN objectives.weights ELSE << >>
        asked   ==
            ((IF "maximize" \in DOMAIN objectives THEN objectives.maximize ELSE {})
                \cap { "efficiency", "power_output", "self_sufficiency" })
            \cup ((IF "minimize" \in DOMAIN objectives THEN objectives.minimize ELSE {})
                    \cap { "specific_cost" })
    IN  SumOver(asked,
                [ name \in asked |->
                    Weighted(IF name \in DOMAIN weights THEN weights[name]
                             ELSE unit_weight,
                             ObjectiveTerm(opt, performance, name)) ])

\* C11: a metric that is absent from the performance record counts as 0 before
\* normalization, for every objective: the fitness is the weighted sum over
\* the record with every missing metric set to 0, so that a missing
\* specific_cost adds weight * (1 - 0).
MissingMetricsCountAsZero ==
    (pc = "done" /\ DOMAIN arg \subseteq MetricKeys) =>
        result = Returned(WeightedSum(optimizer, MissingAsZero(arg), config.objectives))

\* the objectives without the names the evaluator does not look for
Recognised(objectives) ==
    [ k \in DOMAIN objectives |->
        CASE k = "maximize" ->
                 objectives[k] \cap { "efficiency", "power_output", "self_sufficiency" }
          [] k = "minimize" -> objectives[k] \cap { "specific_cost" }
          [] OTHER -> objectives[k] ]

HasOtherNames(objectives) == Recognised(objectives) # objectives

\* C12: names in maximize or minimize that the evaluator does not recognise
\* there never raise an error and leave the fitness unchanged: the call
\* returns the fitness of the same parameters under the objectives without
\* those names.
OtherNamesIgnored ==
    (pc = "done" /\ HasOtherNames(config.objectives)) =>
        /\ result.status = "returned"
        /\ result.value
              = evaluate_fitness(optimizer, arg, Recognised(config.objectives))

\* a call with specific_cost under maximize and efficiency under minimize, and
\* nothing else, whose fitness is 0 at parameters where both terms are not
MisplacedNamesEvaluated ==
    /\ pc = "done"
    /\ { "maximize", "minimize" } \subseteq DOMAIN config.objectives
    /\ config.objectives.maximize = { "specific_cost", "overall_efficiency" }
    /\ config.objectives.minimize = { "efficiency" }
    /\ result = Returned(0)
    /\ evaluate_system_performance(arg).overall_efficiency # 0
    /\ evaluate_system_performance(arg).specific_cost # optimizer.reference_cost * 1000

\* maximize and minimize are empty or missing
AsksForNothing(objectives) ==
    /\ "maximize" \in DOMAIN objectives => objectives.maximize = {}
    /\ "minimize" \in DOMAIN objectives => objectives.minimize = {}

\* with such objectives every fitness is 0: that of any parameter assignment,
\* every score a genetic run gave and every fitness a gradient run recorded
EveryFitnessIsZero ==
    /\ \A a \in EvaluateParameters :
          evaluate_fitness(optimizer, a, config.objectives) = 0
    /\ \A e \in evaluated : e[2] = 0
    /\ \A g \in 1..Len(history) : history[g] = 0

\* the statement of C13 as it was made: with objectives that ask for nothing
\* every fitness is 0 and optimize() returns a result, whatever the method and
\* the rest of the configuration
EmptyObjectivesAlwaysReturn ==
    AsksForNothing(config.objectives) =>
        /\ EveryFitnessIsZero
        /\ pc = "done" => result.status = "returned"

\* C13 (amended): with objectives whose maximize and minimize are empty or
\* missing every fitness is 0, and optimize() returns a result without an
\* error with the gradient and the Pareto method, and with the genetic method
\* when population_size and generations are at least 1.
EmptyObjectivesProceed ==
    AsksForNothing(config.objectives) =>
        /\ EveryFitnessIsZero
        /\ (pc = "done" /\ config.method \in { "gradient", "pareto" }) =>
              result.status = "returned"
        /\ (pc = "done" /\ config.method = "gradient") =>
              result.value.fitness_score = 0
        /\ (pc = "done" /\ config.method = "genetic"
              /\ config.population_size >= 1 /\ config.generations >= 1) =>
              result.status = "returned" /\ result.value.fitness_score = 0

\* a genetic run of two generations on two individuals that returned with
\* objectives that have no maximize and no minimize
EmptyObjectivesGeneticReturned ==
    /\ GeneticReturned
    /\ config.objectives = << >>
    /\ config.population_size = 2
    /\ config.generations = 2
    /\ result.value.fitness_history = << 0, 0 >>

\* C14: the constraint check answers true exactly when every threshold that
\* is present holds of the record with its missing metrics counted as 0:
\* overall_efficiency >= min_efficiency, specific_cost <= max_cost and
\* self_sufficiency_ratio >= min_self_sufficiency; keys that are absent and
\* keys other than these three never make it false.
FeasibleIffThresholdsHold ==
    pc = "done" =>
        LET performance == MissingAsZero(arg)
            c == config.constraints
            holds ==
                /\ "min_efficiency" \in DOMAIN c =>
                      performance.overall_efficiency >= c.min_efficiency
                /\ "max_cost" \in DOMAIN c =>
                      performance.specific_cost <= c.max_cost
                /\ "min_self_sufficiency" \in DOMAIN c =>
                      performance.self_sufficiency_ratio >= c.min_self_sufficiency
        IN  result = Returned(holds)

\* a record accepted although one metric equals its threshold, another is
\* missing under a threshold of 0 and the constraints hold a key that is not
\* looked at
FeasibleOnTheThresholds ==
    /\ pc = "done"
    /\ result = Returned(TRUE)
    /\ DOMAIN config.constraints = { "min_efficiency", "max_cost", "max_emissions" }
    /\ DOMAIN arg = { "specific_cost", "net_power_kw" }
    /\ arg.specific_cost = config.constraints.max_cost

\* the diagnostics as they are defined: over the last 10 entries, v the mean of
\* the squared distances to their mean
ConvergenceDefinition(hist) ==
    LET n == Len(hist)
    IN  IF n < 10
        THEN [ converged |-> FALSE, stability |-> 0 ]
        ELSE LET window == (n - 9)..n
                 mean   == TruncDiv(SumOver(window, [ k \in window |-> hist[k] ]), 10)
                 v      == SumOver(window,
                                   [ k \in window |->
                                       FixMul(Abs(hist[k] - mean), Abs(hist[k] - mean)) ])
                              \div 10
                 change == hist[n] - hist[1]
             IN  [ converged |-> v < 1,
                   stability |-> Ratio(1000000, 1000000 + v),
                   final_improvement |->
                       IF hist[1] = 0 THEN 0
                       ELSE IF change >= 0 THEN Ratio(change, Abs(hist[1]))
                       ELSE -Ratio(-change, Abs(hist[1])) ]

\* C15: the convergence diagnostics of a history are those of the definition:
\* converged = false and stability = 0 below 10 entries; otherwise, with v the
\* variance of the last 10 entries, converged = (v < 1e-6), stability =
\* 1/(1+v) and final_improvement = (last - first)/|first| over the whole
\* history, 0 when first is 0; 10 identical values give converged = true and
\* stability = 1.
ConvergenceAsDefined ==
    pc = "done" =>
        /\ result = Returned(ConvergenceDefinition(arg))
        /\ Len(arg) < 10 => result.value = [ converged |-> FALSE, stability |-> 0 ]
        /\ (Len(arg) = 10 /\ \A k \in 1..10 : arg[k] = arg[1]) =>
              /\ result.value.converged
              /\ result.value.stability = 1000000
              /\ result.value.final_improvement = 0

\* a history longer than 10 that is flat over its last 10 entries and not
\* before: converged, with an improvement that is not 0
ConvergedAfterAChange ==
    /\ pc = "done"
    /\ Len(arg) = 12
    /\ arg[1] # arg[12]
    /\ result.value.converged
    /\ result.value.stability = 1000000
    /\ result.value.final_improvement < 0

\* C16: the returned Pareto frontier is in descending order of efficiency:
\* of two adjacent entries the earlier has an efficiency at least that of
\* the later.
FrontierSortedByEfficiency ==
    ParetoReturned =>
        LET f == result.value.pareto_frontier
        IN  \A m \in 1..(Len(f) - 1) : f[m].efficiency >= f[m + 1].efficiency

\* a returned frontier whose first two entries differ in efficiency and were
\* sampled in the other order
FrontierReordered ==
    /\ ParetoReturned
    /\ Len(result.value.pareto_frontier) >= 2
    /\ LET f == result.value.pareto_frontier
           a == result.value.all_solutions
       IN  /\ f[1].efficiency > f[2].efficiency
           /\ \E m \in 1..Len(a) : \E n \in 1..Len(a) :
                 m < n /\ a[m] = f[2] /\ a[n] = f[1]

\* C17: when the performance model raises during an evaluation of a genetic,
\* gradient or Pareto run, optimize() ends there with that same error: once
\* the raising call has been made the call of optimize() is over and its
\* outcome is the model's error, no result is returned and no further call of
\* the model is made; a result is returned only by a run that never made the
\* raising call.
ModelErrorReachesCaller ==
    RaisesOnCall(optimizer) > 0 =>
        /\ model_calls >= RaisesOnCall(optimizer) =>
              /\ pc = "done"
              /\ result = Raised(optimizer.raises)
              /\ model_calls = RaisesOnCall(optimizer)
        /\ result.status = "returned" => model_calls < RaisesOnCall(optimizer)
        /\ result.status = "raised" =>
              /\ result.error = optimizer.raises
              /\ model_calls = RaisesOnCall(optimizer)

\* a Pareto run whose model raised on its fifth grid point, after four
\* candidates had been collected
ParetoRunRaised ==
    /\ pc = "done"
    /\ config.method = "pareto"
    /\ RaisesOnCall(optimizer) = 5
    /\ Len(solutions) = 4
    /\ result = Raised("RuntimeError")

\* the second of two calls with the same config has ended
SecondRunDone == pc = "done" /\ arg # << >>

GeneticResultsAlone ==
    { LET f == evaluate_fitness(optimizer, ind, config.objectives)
      IN  Returned([ optimized_parameters |-> ind,
                     fitness_score        |-> f,
                     performance_metrics  |-> evaluate_system_performance(ind),
                     optimization_method  |-> "genetic_algorithm",
                     generations          |-> 1,
                     population_size      |-> 1,
                     fitness_history      |-> << f >>,
                     convergence          |-> calculate_convergence(<< f >>) ]) :
        ind \in { [ var \in VarSet(optimizer) |->
                      optimizer.bounds[var][1]
                      + ((optimizer.bounds[var][2] - optimizer.bounds[var][1])
                         * u[var]) \div 1000 ] :
                  u \in [ VarSet(optimizer) -> UniformDraws ] } }

AsAlone(r) ==
    IF config.method = "genetic"
    THEN r \in GeneticResultsAlone
    ELSE r = arg.alone

GradientReturnsFitnessOfIterate ==
    (pc = "done" /\ config.method = "gradient" /\ result.status = "returned") =>
        /\ result.value.optimized_parameters = array_to_params(x)
        /\ result.value.fitness_score =
               evaluate_fitness(optimizer, result.value.optimized_parameters,
                                config.objectives)

\* candidate m of the sequence dominates every other candidate
DominatesEveryOther(sols, m) ==
    \A n \in 1..Len(sols) : n # m => DominatedBy(sols[n], sols[m])

\* C21: when one candidate of a Pareto run dominates every other candidate,
\* the returned frontier holds exactly that candidate.
SingleDominatorIsTheFrontier ==
    ParetoReturned =>
        \A m \in 1..Len(result.value.all_solutions) :
            DominatesEveryOther(result.value.all_solutions, m)
                => result.value.pareto_frontier = << result.value.all_solutions[m] >>

\* a run with several candidates, one of which dominates all the others
SeveralCandidatesOneDominator ==
    /\ ParetoReturned
    /\ Len(result.value.all_solutions) >= 3
    /\ \E m \in 1..Len(result.value.all_solutions) :
          DominatesEveryOther(result.value.all_solutions, m)
    /\ Len(result.value.pareto_frontier) = 1

\* the upper bound of coordinate j of the iterate
UpperOf(j) == optimizer.bounds[BoundKeys[j]][2]

\* every step of the iterate is upward, stays within the upper bounds and
\* leaves a coordinate that is on its upper bound there
StepsUpward ==
    [][(Len(x) = Len(BoundKeys) /\ Len(x') = Len(BoundKeys)) =>
          \A j \in 1..Len(x) :
              /\ x'[j] >= x[j]
              /\ x'[j] <= UpperOf(j)
              /\ x[j] = UpperOf(j) => x'[j] = UpperOf(j)]_vars

\* C22: with a fitness that is linear and strictly increasing in every
\* variable, a gradient run moves every coordinate of the iterate upward and
\* never beyond its upper bound, keeps a coordinate that has reached its upper
\* bound there, and records a fitness history that never decreases.
LinearFitnessClimbs ==
    /\ StepsUpward
    /\ [](\A k \in 1..(Len(history) - 1) : history[k] <= history[k + 1])

\* a run that has moved every coordinate, has two of them held on their upper
\* bounds while the others still climb, and has recorded a rising history
ClimbedWithCoordinatesOnBounds ==
    /\ pc = "gr_loop"
    /\ "linear_model" \in DOMAIN optimizer
    /\ Len(history) >= 20
    /\ history[Len(history)] > history[Len(history) - 1]
    /\ x[3] = UpperOf(3)
    /\ x[4] = UpperOf(4)
    /\ x[1] < UpperOf(1)
    /\ \A j \in 1..Len(x) : x[j] > << 12000, 1400000, 850, 880, 20000, 473000, 2000 >>[j]

\* the vectors whose fitness one iteration asks for at iterate a: the two
\* probes of every dimension (lines 354-363)
ProbesOf(a) ==
    { XPlus(a, j, h) : j \in 1..Len(a) } \cup { XMinus(a, j, h) : j \in 1..Len(a) }

\* C23: every vector that an iteration of the gradient run passes to the
\* fitness evaluator, the probes x + h*e_i and x - h*e_i and the new iterate,
\* lies within the bounds in every coordinate, also when the iterate is on a
\* bound.
GradientEvaluatesInBounds ==
    [][(pc = "gr_loop" /\ iteration' = iteration + 1) =>
          /\ \A v \in ProbesOf(x) : VectorInBounds(optimizer, v)
          /\ VectorInBounds(optimizer, x')]_vars

\* the values of sequence s
Values(s) == { s[k] : k \in 1..Len(s) }

\* a tournament called on its own returns one of the sampled positions, none
\* of which has a higher score
WinnerIsBestOfSampled ==
    (pc = "done" /\ "tournament_idx" \in DOMAIN arg) =>
        /\ result.value \in Values(arg.tournament_idx)
        /\ \A k \in Values(arg.tournament_idx) :
              arg.fitness_scores[k] <= arg.fitness_scores[result.value]

\* one tournament of a run adds one individual to the new population: a new
\* object with the values of a member of the current population, which stays
\* as it was
SelectionCopiesMembers ==
    [][(pc = "g_select" /\ pc' = "g_select") =>
          /\ Len(new_population') = Len(new_population) + 1
          /\ Len(population') = Len(population)
          /\ \A k \in 1..Len(population) :
                heap'[population'[k]] = heap[population[k]]
          /\ \A k \in 1..Len(new_population) :
                heap'[new_population'[k]] = heap[new_population[k]]
          /\ LET a == new_population'[Len(new_population')]
             IN  /\ a \notin Values(population')
                 /\ a \notin Values(SubSeq(new_population', 1, Len(new_population)))
                 /\ a # best_individual'
                 /\ \E k \in 1..Len(population) : heap'[a] = heap[population[k]]]_vars

\* the population, and the new population once selected, have populationSize
\* individuals
PopulationSizeKept ==
    (config.method = "genetic" /\ "tournament_idx" \notin DOMAIN arg) =>
        /\ pc \in { "g_loop", "g_select", "g_crossover", "g_mutate" } =>
              Len(population) = config.population_size
        /\ pc \in { "g_crossover", "g_mutate" } =>
              Len(new_population) = config.population_size
        /\ pc = "g_select" => Len(new_population) <= config.population_size

\* C24: in every generation the selection produces populationSize
\* individuals, each a copy of the member of the current population that has
\* the highest fitness among the 3 members sampled with replacement for its
\* tournament, so that the population has the same size in every generation.
SelectionByTournament ==
    /\ []WinnerIsBestOfSampled
    /\ SelectionCopiesMembers
    /\ []PopulationSizeKept

\* the selection of the second generation is complete: three individuals, two
\* of them copies of the same member and one a copy of another
SecondSelectionPickedAParentTwice ==
    /\ config.method = "genetic"
    /\ pc = "g_crossover"
    /\ generation = 1
    /\ Len(new_population) = 3
    /\ heap[new_population[1]] = heap[new_population[2]]
    /\ heap[new_population[1]] # heap[new_population[3]]
    /\ \A k \in 1..3 : \E m \in 1..3 : heap[new_population[k]] = heap[population[m]]

\* c1 and c2 are parent1 and parent2 with the values swapped from position p on
\* (positions counted from 0 in the order vs)
SuffixSwapped(vs, parent1, parent2, c1, c2, p) ==
    /\ DOMAIN c1 = DOMAIN parent1
    /\ DOMAIN c2 = DOMAIN parent2
    /\ \A j \in 1..Len(vs) :
          IF j - 1 < p
          THEN c1[vs[j]] = parent1[vs[j]] /\ c2[vs[j]] = parent2[vs[j]]
          ELSE c1[vs[j]] = parent2[vs[j]] /\ c2[vs[j]] = parent1[vs[j]]

\* a pair crossed on its own: each child has its own parent's values before
\* the point and the other parent's values from the point on, so the first
\* value of each child is its own parent's and the last the other parent's
ChildrenSwapSuffix ==
    (pc = "done" /\ "crossover_point" \in DOMAIN arg) =>
        LET c1 == result.value[1]
            c2 == result.value[2]
            first == BoundKeys[1]
            last  == BoundKeys[Len(BoundKeys)]
        IN  /\ SuffixSwapped(BoundKeys, arg.parent1, arg.parent2, c1, c2,
                             arg.crossover_point)
            /\ c1[first] = arg.parent1[first] /\ c1[last] = arg.parent2[last]
            /\ c2[first] = arg.parent2[first] /\ c2[last] = arg.parent1[last]

\* one step of the crossover loop of a run takes the next adjacent pair,
\* leaves it as it is or swaps a suffix of its values, and changes nothing else
CrossoverOnPairs ==
    [][(pc = "g_crossover" /\ pc' = "g_crossover") =>
          /\ i % 2 = 0
          /\ i' = i + 2
          /\ i + 2 <= Len(new_population)
          /\ Len(new_population') = Len(new_population)
          /\ \A k \in 1..Len(new_population) :
                k \notin { i + 1, i + 2 } =>
                    heap'[new_population'[k]] = heap[new_population[k]]
          /\ \A k \in 1..Len(population) :
                heap'[population'[k]] = heap[population[k]]
          /\ LET parent1 == heap[new_population[i + 1]]
                 parent2 == heap[new_population[i + 2]]
                 c1 == heap'[new_population'[i + 1]]
                 c2 == heap'[new_population'[i + 2]]
             IN  /\ \/ c1 = parent1 /\ c2 = parent2
                    \/ \E p \in 1..(Len(variables(optimizer)) - 1) :
                          SuffixSwapped(variables(optimizer), parent1, parent2,
                                        c1, c2, p)
                 /\ \A var \in DOMAIN parent1 :
                       \/ c1[var] = parent1[var] /\ c2[var] = parent2[var]
                       \/ c1[var] = parent2[var] /\ c2[var] = parent1[var]]_vars

\* when the crossover loop ends nothing changes: an individual that is in no
\* pair (the last one of an odd-sized population) is as selection left it
CrossoverEndsUnchanged ==
    [][(pc = "g_crossover" /\ pc' = "g_mutate") =>
          /\ i >= Len(new_population) - 1
          /\ UNCHANGED << heap, population, new_population >>]_vars

\* C25: crossover takes the disjoint adjacent pairs (0,1), (2,3), ...; a
\* crossed pair with point p in 1..numVariables-1 gives two children that keep
\* their own parent's values at positions below p and take the other parent's
\* from p on, so that each child has a value of each parent and every
\* variable's two values are kept or swapped; an uncrossed pair and the last
\* individual of an odd-sized population are unchanged.
CrossoverSwapsSuffixOfPairs ==
    /\ []ChildrenSwapSuffix
    /\ CrossoverOnPairs
    /\ CrossoverEndsUnchanged

\* in a population of three the first pair has been crossed into two children
\* that are no member of the population, and the third individual is still the
\* copy that selection made
PairCrossedThirdLeft ==
    /\ config.method = "genetic"
    /\ pc = "g_crossover"
    /\ i = 2
    /\ Len(new_population) = 3
    /\ \A k \in 1..2 : \A m \in 1..3 : heap[new_population[k]] # heap[population[m]]
    /\ \E m \in 1..3 : heap[new_population[3]] = heap[population[m]]

\* the same efficiency, power and cost
SameTriple(A, B) ==
    A.efficiency = B.efficiency /\ A.power = B.power /\ A.cost = B.cost

\* C26: the returned frontier is complete: every candidate that is not in it
\* is dominated by a solution that is in it, and candidates with the same
\* efficiency, power and cost are all in the frontier or all left out.
FrontierComplete ==
    ParetoReturned =>
        LET f == Values(result.value.pareto_frontier)
            c == Values(result.value.all_solutions)
        IN  /\ \A A \in c \ f : \E B \in f : DominatedBy(A, B)
            /\ \A A \in c : \A B \in c : SameTriple(A, B) => (A \in f <=> B \in f)

\* a frontier of several candidates with the same triple, and candidates with
\* another common triple that are all left out
TiedInAndTiedOut ==
    /\ ParetoReturned
    /\ LET f == Values(result.value.pareto_frontier)
           c == Values(result.value.all_solutions)
       IN  /\ \E A \in f : \E B \in f : A # B /\ SameTriple(A, B)
           /\ \E A \in c \ f : \E B \in c \ f : A # B /\ SameTriple(A, B)

\* no object is in two slots of the sequence
NoSlotShared(s) == \A k \in 1..Len(s) : \A m \in 1..Len(s) : k # m => s[k] # s[m]

\* no object is in two slots of the population or of the new population, in a
\* slot of each while the new population is built, or both in a slot and the
\* recorded best individual
NoIndividualShared ==
    config.method = "genetic" =>
        /\ NoSlotShared(population)
        /\ NoSlotShared(new_population)
        /\ pc \in { "g_select", "g_crossover", "g_mutate" } =>
              Values(population) \cap Values(new_population) = {}
        /\ best_individual \notin Values(population) \cup Values(new_population)

\* a mutation changes the individual it is applied to and nothing else
MutationChangesOneIndividual ==
    [][(pc = "g_mutate" /\ pc' = "g_mutate") =>
          /\ \A k \in 1..Len(new_population) :
                k # i + 1 => heap'[new_population'[k]] = heap[new_population[k]]
          /\ \A k \in 1..Len(population) :
                heap'[population'[k]] = heap[population[k]]
          /\ best_individual # 0 => heap'[best_individual'] = heap[best_individual]]_vars

\* C27: in a genetic run no two population slots, and no slot and the recorded
\* best individual, are one mutable object: mutating an individual changes no
\* other individual of the new or the previous population and not the best
\* individual, also when the selection picked the same parent several times.
IndividualsNeverAliased ==
    /\ []NoIndividualShared
    /\ MutationChangesOneIndividual

\* all members of the population, and so all selected copies and the best
\* individual, had the same values; the first copy has been mutated and the
\* second copy, the population and the best individual still have them
MutatedOneOfIdenticalCopies ==
    /\ config.method = "genetic"
    /\ pc = "g_mutate"
    /\ i = 1
    /\ Len(new_population) >= 2
    /\ \A k \in 1..Len(population) : heap[population[k]] = heap[best_individual]
    /\ heap[new_population[1]] # heap[best_individual]
    /\ heap[new_population[2]] = heap[best_individual]

\* C28: a genetic run returns a result with a best individual whenever
\* population_size >= 1 and generations >= 1; with population_size = 0 or
\* generations = 0 no individual is ever evaluated, there is no best
\* individual, and optimize() ends with the error of the final performance
\* evaluation instead of a result.
GeneticReturnsUnlessNothingEvaluated ==
    config.method = "genetic" =>
        IF config.population_size >= 1 /\ config.generations >= 1
        THEN pc = "done" =>
                /\ result.status = "returned"
                /\ result.value.optimized_parameters # None
                /\ InBounds(optimizer, result.value.optimized_parameters)
        ELSE /\ best_individual = 0
             /\ evaluated = {}
             /\ model_calls = 0
             /\ pc = "done" => result = Raised("AttributeError")

\* a run of two generations on an empty population has failed: both passes of
\* the loop were made and recorded the best of nothing
EmptyPopulationRunFailed ==
    /\ config.method = "genetic"
    /\ pc = "done"
    /\ config.population_size = 0
    /\ config.generations = 2
    /\ result.status = "raised"
    /\ fitness_history = << NegInf, NegInf >>

\* the run stops early: the stopping iteration is counted and records nothing
StoppedEarlyCountsOneMore ==
    [][(pc = "gr_loop" /\ pc' = "gr_return" /\ iteration' = iteration + 1) =>
          /\ history' = history
          /\ iteration' + 1 = Len(history') + 1]_vars

\* the run reaches the limit: every iteration recorded a fitness
LimitCountsHistory ==
    [][(pc = "gr_loop" /\ pc' = "gr_return" /\ iteration' = iteration) =>
          /\ history' = history
          /\ iteration' + 1 = Len(history')
          /\ iteration' + 1 = max_iterations]_vars

\* the history starts empty, and a step that is accepted records the fitness
\* of the new iterate, which is not the iterate before
HistoryOfNewIterates ==
    /\ [][(pc = "gradient" /\ pc' = "gr_loop") => history' = << >>]_vars
    /\ [][(pc = "gr_loop" /\ pc' = "gr_loop") =>
             /\ x' # x
             /\ history' =
                    Append(history,
                           evaluate_fitness(optimizer, array_to_params(x'),
                                            config.objectives))]_vars

\* the result reports the count and the history of the run
ReportsCountAndHistory ==
    [][(pc = "gr_return" /\ pc' = "done" /\ result'.status = "returned") =>
          /\ result'.value.iterations = iteration + 1
          /\ result'.value.fitness_history = history]_vars

\* C29: in a gradient run the reported iteration count is len(history) + 1
\* when the run stopped early on the step-size test, whose iteration records
\* no fitness, and count = len(history) = max_iterations when the iteration
\* limit was reached; the history never holds the fitness of the initial
\* guess.
GradientCountAndHistory ==
    /\ StoppedEarlyCountsOneMore
    /\ LimitCountsHistory
    /\ HistoryOfNewIterates
    /\ ReportsCountAndHistory

\* a run that reached the iteration limit has returned
GradientRanToTheLimit ==
    /\ config.method = "gradient"
    /\ pc = "done"
    /\ result.status = "returned"
    /\ result.value.iterations = max_iterations
    /\ Len(result.value.fitness_history) = max_iterations

\* the parameter space and the reference constants are those of construction,
\* with every lower bound below its upper bound
InstanceAsConstructed ==
    /\ optimizer.bounds = InitialBounds
    /\ DOMAIN optimizer.bounds = Values(BoundKeys)
    /\ \A var \in DOMAIN optimizer.bounds :
          optimizer.bounds[var][1] < optimizer.bounds[var][2]
    /\ optimizer.reference_power = reference_power
    /\ optimizer.reference_efficiency = reference_efficiency
    /\ optimizer.reference_cost = reference_cost

\* C30: no call of optimize(), whatever the method and whether it returns or
\* raises, changes the parameter space of the optimizer (the variables, their
\* order and their bounds, every lower bound below its upper bound) or its
\* reference constants, nor the objectives and constraints of the caller.
OptimizeChangesNoInput ==
    /\ []InstanceAsConstructed
    /\ [][/\ optimizer' = optimizer
           /\ config'.objectives = config.objectives
           /\ config'.constraints = config.constraints]_vars

\* a genetic call that made its two passes and then raised, with the instance
\* and the caller's objectives as they were given
RaisedWithInputsIntact ==
    /\ pc = "done"
    /\ result.status = "raised"
    /\ config.method = "genetic"
    /\ config.generations = 2
    /\ evaluations = 2
    /\ InstanceAsConstructed
    /\ config.objectives \in GeneticObjectives

=============================================================================
